---- MODULE Spec2Model ----
(***************************************************************************)
(* Civicsweep offline-first client (app/src/main/assets/app.js): the       *)
(* OfflineQueue retry queue, its flush loop and retry timer, the error     *)
(* classification of the network gateway and the connectivity monitor.     *)
(***************************************************************************)
EXTENDS Integers, Sequences, FiniteSets, TLC

(* ------------------------------ bounds -------------------------------- *)
MaxItems == 2          \* enqueue calls in one behaviour
MaxEvents == 1         \* "online" events waiting in the event loop
MaxFrames == 2         \* flush activations suspended on a remote call
MaxLiveItems == 1      \* enqueue calls in one behaviour of LiveSpec, SpecHist
                       \* and SpecSession
MaxSessions == 1       \* logins and logouts in one behaviour of SpecSession
MaxCalls == 2          \* gateway calls of the views suspended at their fetch

(* ------------------------- program constants -------------------------- *)
RetryCap == 6
BaseDelay == 2000
MaxDelay == 60000
JitterSpan == 400

\* Math.floor(Math.random() * 400): the two ends of the range 0..399
Jitters == {0, JitterSpan - 1}

\* an absent or empty identifier
NoId == ""

\* the four branches of the dispatch chain of flush
KnownKinds == {"report.create", "vendor.complete", "admin.assign", "admin.status"}
\* a type value none of the branches matches
OtherKind == "other"

NoError == ""

\* Session.data.role values; NoRole stands for Session.data = null
Roles == {"user", "vendor", "admin"}
NoRole == "none"

\* a recorded retry deadline that lies in the past
Past == -1

\* A token is the sequence of its dot-separated segments.  The middle segment
\* is described by what atob and JSON.parse make of it: b64 is whether atob
\* decodes it, json whether JSON.parse accepts the text, val the parsed
\* payload; a payload has an exp claim (epoch seconds) or none, and a role
\* claim or "".  NoToken stands for JWT = null.
NoToken == <<>>

Jwt(payload) == <<"hdr", [b64 |-> TRUE, json |-> TRUE, val |-> payload], "sig">>

\* an exp claim later than every instant of the model
FarExp == 5000

\* the bearer token in the JWT slot: one per account, NoToken for JWT = null
TokenOf(r) ==
  IF r = NoRole THEN NoToken
  ELSE Jwt([hasExp |-> TRUE, exp |-> FarExp, role |-> r])

\* an exp claim 10 s after Instant0
SoonExp == 1010

\* tokens that do not decode to a payload with an exp claim: a single
\* segment, a middle segment that is not base64, one that is not JSON, and a
\* payload without exp
Malformed(r) ==
  { <<"opaque">>,
    <<"hdr", [b64 |-> FALSE, json |-> FALSE, val |-> [none |-> TRUE]], "sig">>,
    <<"hdr", [b64 |-> TRUE, json |-> FALSE, val |-> [none |-> TRUE]], "sig">>,
    Jwt([hasExp |-> FALSE, exp |-> 0, role |-> r]) }

\* r.token of a login response for an account of role r
Issued(r) ==
  {TokenOf(r), Jwt([hasExp |-> TRUE, exp |-> SoonExp, role |-> r])}
  \cup Malformed(r)

\* the token has a payload with an exp claim
HasExp(token) ==
  /\ Len(token) >= 2
  /\ token[2].b64
  /\ token[2].json
  /\ token[2].val.hasExp

\* every token of the model
Tokens == UNION {Issued(r) : r \in Roles}

(* ------------------------------ accounts ------------------------------ *)
\* The people who sign in: role, the identifier typed on the login form (an
\* email or a vendor code) and the id the service returns for the session
\* object (userId, vendorId or adminEmail).
People ==
  { [role |-> "user",   login |-> "a@x", id |-> "u1"],
    [role |-> "vendor", login |-> "v1",  id |-> "v1"],
    [role |-> "vendor", login |-> "v2",  id |-> "v2"],
    [role |-> "admin",  login |-> "r@x", id |-> "r@x"],
    [role |-> "admin",  login |-> "s@x", id |-> "s@x"] }

\* Session.data = null, and Store.get("lastSession", null) with nothing stored
NoSession == [none |-> TRUE]

\* the session object the login handlers build: { role, userId | vendorId |
\* adminEmail, name }
SessionOf(person) == [role |-> person.role, id |-> person.id]

\* the account that is signed in for a role where the program starts with a
\* session
PersonOf(r) ==
  CHOOSE person \in People : person.role = r /\ person.login \in {"a@x", "v1", "r@x"}

\* the id of its session
IdOf(r) == IF r = NoRole THEN NoId ELSE PersonOf(r).id

\* the people who sign in where whole login flows are explored
Cast == {person \in People : person.login \in {"a@x", "v1"}}

\* what is typed in the identifier field of a login form
TypedIds == {NoId, "a@x", "A@x", "u1", "v1"}

\* a login form is submitted while fewer than this many calls of api() are
\* awaiting their response
MaxLogins == 1

\* the account list keeps this many entries
MaxAccounts == 5

\* skewSeconds of isJwtExpired where the program calls it
Skew == 60

(* ------------------------------- time --------------------------------- *)
\* Date.now() at the start, and the instants the clock can move on to: five
\* minutes later and one millisecond after that
Instant0 == 1000000
FiveMinutes == 5 * 60 * 1000
Instants == {Instant0, Instant0 + FiveMinutes, Instant0 + FiveMinutes + 1}

\* skewSeconds of a call of isJwtExpired: the default and two smaller ones
Skews == {0, 1, 60}

\* Math.floor(Date.now() / 1000) at the instants of the model
NowSecs == {t \div 1000 : t \in Instants}

\* exp claims on both sides of now and of now + skew
ExpClaims ==
  UNION {{n - 1, n, n + 1, n + 2, n + 60, n + 61} : n \in NowSecs}

\* the tokens isJwtExpired is applied to on its own
ProbeTokens ==
  {Jwt([hasExp |-> TRUE, exp |-> e, role |-> "user"]) : e \in ExpClaims}
  \cup Malformed("user") \cup {NoToken}

(* ------------------------------- cache -------------------------------- *)
\* the cache key Reports.refreshUserTable passes to api(), with its
\* cacheMaxAgeMs
\* the cacheKey of Reports.refreshAdminTable with the filter and the search
\* box left as they are drawn
AdminKey == "reports.admin.all.all"

CacheKeys == {"reports.me", "reports.vendor", "vendors", AdminKey}

cacheMaxAgeMs(key) == IF key = "vendors" THEN 12 * FiveMinutes ELSE FiveMinutes

\* the cacheKey of the first read UI.route() makes for a role:
\* Reports.refreshUserTable, Reports.refreshVendorTable, Vendors.refresh
TableKey(r) ==
  CASE r = "user" -> "reports.me"
    [] r = "vendor" -> "reports.vendor"
    [] OTHER -> "vendors"

\* options.cacheKey absent
NoKey == ""

\* method and cacheKey of the api() calls the views make
CallShapes == {<<"GET", "reports.me">>, <<"GET", NoKey>>, <<"POST", NoKey>>}

\* the parsed body of a success response
Bodies == {"rows1", "rows2"}

\* JavaScript null as a value handed to a caller
Null == "null"

\* Store.get("cache:<key>", null) with nothing stored
NoRec == [none |-> TRUE]

NoOp == [out |-> "none", value |-> Null]

(* --------------------------- remote outcomes -------------------------- *)
\* What the awaited fetch of api() can produce: a success response, a
\* rejected promise (transport fault), or a well-formed non-success response
\* whose body carries an error text.
Responses ==
  { [kind |-> "ok",    status |-> 200, error |-> ""],
    [kind |-> "fault", status |-> 0,   error |-> ""],
    [kind |-> "http",  status |-> 400, error |-> "Invalid report"],
    [kind |-> "http",  status |-> 409, error |-> "Network zone mismatch"] }

\* what a login call can settle with
LoginResponses == {resp \in Responses : resp.kind # "http"}

HttpStatusText(status) ==
  CASE status = 400 -> "HTTP 400"
    [] status = 409 -> "HTTP 409"
    [] status = 500 -> "HTTP 500"
    [] OTHER -> "HTTP"

\* the error api() throws for a response that is not a success
ApiError(resp) ==
  IF resp.kind = "fault"
    THEN [name |-> "TypeError", message |-> "Failed to fetch"]
    ELSE [name |-> "Error",
          message |-> IF resp.error # "" THEN resp.error
                      ELSE HttpStatusText(resp.status)]

\* /failed to fetch|networkerror|load failed|network/i over the messages above
TransportPattern(msg) ==
  msg \in {"Failed to fetch", "Network zone mismatch"}

\* a classification that does not look at navigator.onLine
isNetworkError_noOnlineCheck(err, onLine) ==
  err.name = "TypeError" \/ TransportPattern(err.message)

isNetworkError(err, onLine) ==
  IF ~onLine THEN TRUE
  ELSE err.name = "TypeError" \/ TransportPattern(err.message)

(* ------------------------------- state -------------------------------- *)
VARIABLES
  online,       \* navigator.onLine
  role,         \* Session.data.role, NoRole when Session.data is null
  sessionId,    \* Session.data.userId / vendorId / adminEmail, NoId when
                \* Session.data is null
  jwt,          \* JWT, the token api() puts in the Authorization header
  onlineEvt,    \* "online" events dispatched by the platform, not yet handled
  list,         \* OfflineQueue.list
  stored,       \* Store "offlineQueue"
  flushing,     \* OfflineQueue._flushing
  retryCount,   \* OfflineQueue._retryCount
  timer,        \* OfflineQueue._timer: 0 = null, else the delay it was armed with
  nextRetryAt,  \* OfflineQueue._nextRetryAt: 0 = null, Past = a deadline that
                \* has passed, else the delay to the deadline when it was set
  armed,        \* setTimeout callbacks of scheduleFlush pending in the platform
  frames,       \* flush activations suspended at an await api(...), each with
                \* the Authorization token its request was sent with
  nextId,       \* ids handed out by enqueue
  enqueued,     \* history: entries as enqueue created them, in call order
  owner,        \* history: owner[n] is the token in the JWT slot when the n-th
                \* entry was enqueued
  delivered,    \* history: ids whose remote call returned success
  lastRes,      \* history: how the latest remote call of a flush settled and
                \* how flush classified it; reset when a flush starts processing
  dropped,      \* history: a flush request met the _flushing guard during the
                \* flush now in progress
  netFails,     \* history: flushes ended by a NetworkError since the counter was
                \* last reset (RetryCap + 1 stands for any larger number)
  netFailsUp,   \* history: those of them that ended while navigator.onLine
  fx,           \* history: success toasts and UI.route() calls of the latest
                \* flush that started processing
  calm,         \* environment: connectivity stays up, remote accepts, user idle
  budget,       \* environment: enqueue calls the behaviour may make
  hist,         \* whether dropped, netFails and netFailsUp are recorded
  sessions,     \* logins and logouts so far
  clock,        \* Date.now(), in milliseconds
  cache,        \* Store "cache:<key>": the record { t, v } of each cache key
  lastSyncAt,   \* Store "lastSyncAt": 0 = absent, else the instant it was set
  lastFromCache,\* api.lastFromCache
  progress,     \* the progress bar of UI.fx: "running" once progressStart has
                \* set it going, "idle" once progressStop has completed it
  calls,        \* api activations suspended at their fetch, other than those
                \* of flush (which are in frames)
  accounts,     \* Store "offlineAccounts"
  lastSession,  \* Store "lastSession"
  lastJwt,      \* Store "lastJwt"
  lastLoginId,  \* Store "lastLoginId"
  recency,      \* history: the rememberSession calls that reached the account
                \* list, latest first, one per key
  lastOp        \* history: what the latest gateway call or vault lookup that
                \* returned gave its caller

vars == <<online, role, sessionId, jwt, onlineEvt, list, stored, flushing, retryCount, timer,
          nextRetryAt, armed, frames, nextId, enqueued, owner, delivered, lastRes,
          dropped, netFails, netFailsUp, fx, calm, budget, hist, sessions,
          clock, cache, lastSyncAt, lastFromCache, progress, calls, accounts,
          lastSession, lastJwt, lastLoginId, recency, lastOp>>

\* what the queue and its callers never write
gatewayVars == <<clock, cache, calls>>

vaultVars == <<accounts, lastSession, lastJwt, lastLoginId, recency>>

NoRes == [cls |-> "none", kind |-> "none", message |-> ""]

NoFx == [toasts |-> 0, routed |-> FALSE]

(* -------------------------- the queue object -------------------------- *)
\* role and jwt are the Session and JWT globals flush reads and clock is the
\* time it reads; it never writes them, nor hist.  lastSyncAt and
\* lastFromCache are written by the api() calls flush makes.
Q == [list |-> list, stored |-> stored, flushing |-> flushing,
      retryCount |-> retryCount, timer |-> timer, nextRetryAt |-> nextRetryAt,
      armed |-> armed, frames |-> frames, delivered |-> delivered,
      lastRes |-> lastRes, dropped |-> dropped, netFails |-> netFails,
      netFailsUp |-> netFailsUp, fx |-> fx, role |-> role, jwt |-> jwt,
      hist |-> hist, lastSyncAt |-> lastSyncAt,
      lastFromCache |-> lastFromCache, progress |-> progress, clock |-> clock]

SetQ(q) ==
  /\ list' = q.list
  /\ stored' = q.stored
  /\ flushing' = q.flushing
  /\ retryCount' = q.retryCount
  /\ timer' = q.timer
  /\ nextRetryAt' = q.nextRetryAt
  /\ armed' = q.armed
  /\ frames' = q.frames
  /\ delivered' = q.delivered
  /\ lastRes' = q.lastRes
  /\ dropped' = q.dropped
  /\ netFails' = q.netFails
  /\ netFailsUp' = q.netFailsUp
  /\ fx' = q.fx
  /\ lastSyncAt' = q.lastSyncAt
  /\ lastFromCache' = q.lastFromCache
  /\ progress' = q.progress

Min(a, b) == IF a < b THEN a ELSE b

\* line 279 of api(): UI.fx.progressStart() before the fetch; x is the part of
\* the state the caller works on
Started(x) == [x EXCEPT !.progress = "running"]

\* lines 280-303 of api(): UI.fx.progressStop() is reached when the fetch
\* resolved with a response, of whatever status; when the fetch rejected,
\* the catch block has returned or thrown before it
Answered(x, resp) ==
  IF resp.kind = "fault" THEN x ELSE [x EXCEPT !.progress = "idle"]

RECURSIVE Pow2(_)
Pow2(n) == IF n = 0 THEN 1 ELSE 2 * Pow2(n - 1)

\* a slice that starts one element too late
Slice_offByOne(l, i) == IF i + 1 > Len(l) THEN <<>> ELSE SubSeq(l, i + 1, Len(l))

\* this.list.slice(i) for a 1-based index i
Slice(l, i) == IF i > Len(l) THEN <<>> ELSE SubSeq(l, i, Len(l))

RemoveAt(s, k) == SubSeq(s, 1, k - 1) \o SubSeq(s, k + 1, Len(s))

save(q) == [q EXCEPT !.stored = q.list]

\* a delay that grows by the base at every retry instead of doubling
RetryDelay_linear(n) == Min(MaxDelay, BaseDelay * (n + 1))

RetryDelay(n) == Min(MaxDelay, BaseDelay * Pow2(n))

\* a scheduleFlush that does not clamp the delay
scheduleFlush_noClamp(q, jitter) ==
  IF q.timer # 0 \/ Len(q.list) = 0 THEN q
  ELSE [q EXCEPT !.timer = BaseDelay * Pow2(q.retryCount) + jitter,
                 !.nextRetryAt = BaseDelay * Pow2(q.retryCount) + jitter,
                 !.armed = @ + 1]

scheduleFlush(q, jitter) ==
  IF q.timer # 0 \/ Len(q.list) = 0 THEN q
  ELSE [q EXCEPT !.timer = RetryDelay(q.retryCount) + jitter,
                 !.nextRetryAt = RetryDelay(q.retryCount) + jitter,
                 !.armed = @ + 1]

\* a clearSchedule that forgets the handle without clearTimeout
clearSchedule_noClearTimeout(q) == [q EXCEPT !.timer = 0, !.nextRetryAt = 0]

clearSchedule(q) ==
  [q EXCEPT !.timer = 0, !.nextRetryAt = 0,
            !.armed = IF q.timer # 0 THEN @ - 1 ELSE @]

\* entry built by enqueue(item)
Entry(id, type) == [id |-> id, type |-> type, error |-> NoError, failedAt |-> 0]

\* an enqueue that does not write the queue to the store
enqueue_noSave(q, id, type, onLine, jitter) ==
  LET q1 == [q EXCEPT !.list = Append(q.list, Entry(id, type))]
  IN  IF onLine THEN scheduleFlush(q1, jitter) ELSE q1

\* an enqueue that schedules a flush whatever navigator.onLine says
enqueue_scheduleOffline(q, id, type, onLine, jitter) ==
  scheduleFlush(save([q EXCEPT !.list = Append(q.list, Entry(id, type))]), jitter)

enqueue(q, id, type, onLine, jitter) ==
  LET q1 == save([q EXCEPT !.list = Append(q.list, Entry(id, type))])
  IN  IF onLine THEN scheduleFlush(q1, jitter) ELSE q1

\* does the if / else-if chain of the loop body make a remote call for item
Dispatches(item) == item.type \in KnownKinds

\* the loop index at which the for loop next awaits: items that no branch
\* matches fall through the body without a call and without a suspension
RECURSIVE NextAwait(_, _)
NextAwait(l, i) ==
  IF i > Len(l) THEN i
  ELSE IF Dispatches(l[i]) THEN i
  ELSE NextAwait(l, i + 1)

\* an annotation that sets failedAt and forgets the error text
Annotate_noError(item, err) == [item EXCEPT !.failedAt = 1]

\* { ...item, error: e?.message || "Failed", failedAt: now() }
Annotate(item, err) ==
  [item EXCEPT !.error = IF err.message # "" THEN err.message ELSE "Failed",
               !.failedAt = 1]

\* history of the flush tail: one more flush ended by a NetworkError
Counted(q, failedNet, onLine) ==
  IF Len(q.list) = 0 THEN [q EXCEPT !.netFails = 0, !.netFailsUp = 0]
  ELSE IF ~failedNet \/ ~q.hist THEN q
  ELSE [q EXCEPT !.netFails = Min(@ + 1, RetryCap + 1),
                 !.netFailsUp = IF onLine THEN Min(@ + 1, RetryCap + 1) ELSE @]

\* a completion that refreshes the view whether or not a session exists
Synced_alwaysRoute(q) ==
  [q EXCEPT !.fx = [toasts |-> @.toasts + 1, routed |-> TRUE]]

\* lines 484-487: toast("Offline changes synced") and, with a session role,
\* UI.route()
Synced(q) ==
  [q EXCEPT !.fx = [toasts |-> @.toasts + 1,
                    routed |-> q.role # NoRole]]

\* a tail that does not write the queue to the store
flushTail_noSave(q, remaining, failedNet, onLine, jitter) ==
  LET q1 == [q EXCEPT !.list = remaining]
      q2 == Counted([q1 EXCEPT !.flushing = FALSE, !.dropped = FALSE],
                    failedNet, onLine)
  IN  IF Len(q2.list) = 0
        THEN Synced(clearSchedule([q2 EXCEPT !.retryCount = 0]))
      ELSE IF onLine /\ failedNet
        THEN scheduleFlush([q2 EXCEPT !.retryCount = Min(q2.retryCount + 1, RetryCap)],
                           jitter)
      ELSE q2

\* a tail that increments the retry counter without the cap
flushTail_noCap(q, remaining, failedNet, onLine, jitter) ==
  LET q1 == save([q EXCEPT !.list = remaining])
      q2 == Counted([q1 EXCEPT !.flushing = FALSE, !.dropped = FALSE],
                    failedNet, onLine)
  IN  IF Len(q2.list) = 0
        THEN Synced(clearSchedule([q2 EXCEPT !.retryCount = 0]))
      ELSE IF onLine /\ failedNet
        THEN scheduleFlush([q2 EXCEPT !.retryCount = q2.retryCount + 1], jitter)
      ELSE q2

\* a tail that resets the retry counter when the flush ends on a LogicalError
flushTail_resetOnLogical(q, remaining, failedNet, onLine, jitter) ==
  LET q1 == save([q EXCEPT !.list = remaining])
      q2 == Counted([q1 EXCEPT !.flushing = FALSE, !.dropped = FALSE],
                    failedNet, onLine)
  IN  IF Len(q2.list) = 0
        THEN Synced(clearSchedule([q2 EXCEPT !.retryCount = 0]))
      ELSE IF onLine /\ failedNet
        THEN scheduleFlush([q2 EXCEPT !.retryCount = Min(q2.retryCount + 1, RetryCap)],
                           jitter)
      ELSE IF ~failedNet THEN [q2 EXCEPT !.retryCount = 0]
      ELSE q2

\* a tail that leaves the schedule alone when the queue has drained
flushTail_noClear(q, remaining, failedNet, onLine, jitter) ==
  LET q1 == save([q EXCEPT !.list = remaining])
      q2 == Counted([q1 EXCEPT !.flushing = FALSE, !.dropped = FALSE],
                    failedNet, onLine)
  IN  IF Len(q2.list) = 0
        THEN Synced([q2 EXCEPT !.retryCount = 0])
      ELSE IF onLine /\ failedNet
        THEN scheduleFlush([q2 EXCEPT !.retryCount = Min(q2.retryCount + 1, RetryCap)],
                           jitter)
      ELSE q2

\* lines 477-494: what flush does once the loop is left
flushTail(q, remaining, failedNet, onLine, jitter) ==
  LET q1 == save([q EXCEPT !.list = remaining])
      q2 == Counted([q1 EXCEPT !.flushing = FALSE, !.dropped = FALSE],
                    failedNet, onLine)
  IN  IF Len(q2.list) = 0
        THEN Synced(clearSchedule([q2 EXCEPT !.retryCount = 0]))
      ELSE IF onLine /\ failedNet
        THEN scheduleFlush([q2 EXCEPT !.retryCount = Min(q2.retryCount + 1, RetryCap)],
                           jitter)
      ELSE q2

\* the for loop from index i on, up to its next await or to its end
flushLoop(q, i, onLine, jitter) ==
  LET k == NextAwait(q.list, i)
  IN  IF k <= Len(q.list)
        THEN [q EXCEPT !.frames = Append(q.frames, [i |-> k, item |-> q.list[k],
                                                    auth |-> q.jwt]),
                       !.lastFromCache = FALSE,
                       !.progress = "running"]
        ELSE flushTail(q, <<>>, FALSE, onLine, jitter)

\* history of the guard of flush: a request was dropped
Dropped(q) == IF q.hist THEN [q EXCEPT !.dropped = TRUE] ELSE q

\* lines 443-446: the force branch of flush
Forced(q) ==
  clearSchedule([q EXCEPT !.retryCount = 0, !.netFails = 0, !.netFailsUp = 0])

\* a flush without the _flushing guard
flush_noGuard(q, force, onLine, jitter) ==
  LET q1 == IF force THEN Forced(q) ELSE q
  IN  IF ~onLine THEN scheduleFlush(q1, jitter)
      ELSE IF Len(q1.list) = 0 THEN q1
      ELSE flushLoop([q1 EXCEPT !.flushing = TRUE, !.lastRes = NoRes, !.fx = NoFx],
                     1, onLine, jitter)

\* flush(force) from its call to its first suspension or return
flush(q, force, onLine, jitter) ==
  IF q.flushing THEN Dropped(q)
  ELSE
    LET q1 == IF force THEN Forced(q) ELSE q
    IN  IF ~onLine THEN scheduleFlush(q1, jitter)
        ELSE IF Len(q1.list) = 0 THEN q1
        ELSE flushLoop([q1 EXCEPT !.flushing = TRUE, !.lastRes = NoRes, !.fx = NoFx],
                       1, onLine, jitter)

\* a success path of api() that does not stamp the last sync
Succeeded_noStamp(q, onLine) == [q EXCEPT !.lastFromCache = FALSE]

\* lines 313-315 of api() for a call of flush (a POST without cacheKey)
Succeeded(q, onLine) ==
  [q EXCEPT !.lastSyncAt = IF onLine THEN q.clock ELSE @,
            !.lastFromCache = FALSE]

\* a resume that goes on with the next item after a failure instead of
\* leaving the loop
flushResume_continue(q, f, resp, onLine, jitter) ==
  LET fr == q.frames[f]
      q0 == Answered([q EXCEPT !.frames = RemoveAt(q.frames, f)], resp)
  IN  IF resp.kind = "ok"
        THEN flushLoop([Succeeded(q0, onLine)
                          EXCEPT !.delivered = @ \cup {fr.item.id},
                                 !.lastRes = [cls |-> "ok", kind |-> resp.kind,
                                              message |-> ""]],
                       fr.i + 1, onLine, jitter)
        ELSE
          LET e == ApiError(resp)
              isNet == isNetworkError(e, onLine)
          IN  flushLoop([q0 EXCEPT !.lastRes =
                                     [cls |-> IF isNet THEN "net" ELSE "logical",
                                      kind |-> resp.kind, message |-> e.message]],
                        fr.i + 1, onLine, jitter)

\* a resume that annotates the failed item whatever the class of the failure
flushResume_annotateAll(q, f, resp, onLine, jitter) ==
  LET fr == q.frames[f]
      q0 == Answered([q EXCEPT !.frames = RemoveAt(q.frames, f)], resp)
  IN  IF resp.kind = "ok"
        THEN flushLoop([Succeeded(q0, onLine)
                          EXCEPT !.delivered = @ \cup {fr.item.id},
                                 !.lastRes = [cls |-> "ok", kind |-> resp.kind,
                                              message |-> ""]],
                       fr.i + 1, onLine, jitter)
        ELSE
          LET e == ApiError(resp)
              isNet == isNetworkError(e, onLine)
              rem == <<Annotate(fr.item, e)>> \o Slice(q.list, fr.i + 1)
          IN  flushTail([q0 EXCEPT !.lastRes =
                                     [cls |-> IF isNet THEN "net" ELSE "logical",
                                      kind |-> resp.kind, message |-> e.message]],
                        rem, isNet, onLine, jitter)

\* a resume that keeps the whole list, not the slice from the failed item on
flushResume_keepAll(q, f, resp, onLine, jitter) ==
  LET fr == q.frames[f]
      q0 == Answered([q EXCEPT !.frames = RemoveAt(q.frames, f)], resp)
  IN  IF resp.kind = "ok"
        THEN flushLoop([Succeeded(q0, onLine)
                          EXCEPT !.delivered = @ \cup {fr.item.id},
                                 !.lastRes = [cls |-> "ok", kind |-> resp.kind,
                                              message |-> ""]],
                       fr.i + 1, onLine, jitter)
        ELSE
          LET e == ApiError(resp)
              isNet == isNetworkError(e, onLine)
          IN  flushTail([q0 EXCEPT !.lastRes =
                                     [cls |-> IF isNet THEN "net" ELSE "logical",
                                      kind |-> resp.kind, message |-> e.message]],
                        q.list, isNet, onLine, jitter)

\* the suspended activation f resumes with the outcome of its remote call
flushResume(q, f, resp, onLine, jitter) ==
  LET fr == q.frames[f]
      q0 == Answered([q EXCEPT !.frames = RemoveAt(q.frames, f)], resp)
  IN  IF resp.kind = "ok"
        THEN flushLoop([Succeeded(q0, onLine)
                          EXCEPT !.delivered = @ \cup {fr.item.id},
                                 !.lastRes = [cls |-> "ok", kind |-> resp.kind,
                                              message |-> ""]],
                       fr.i + 1, onLine, jitter)
        ELSE
          LET e == ApiError(resp)
              remaining == Slice(q.list, fr.i)
              isNet == isNetworkError(e, onLine)
              rem == IF ~isNet
                       THEN <<Annotate(fr.item, e)>> \o Slice(q.list, fr.i + 1)
                       ELSE remaining
          IN  flushTail([q0 EXCEPT !.lastRes =
                                     [cls |-> IF isNet THEN "net" ELSE "logical",
                                      kind |-> resp.kind, message |-> e.message]],
                        rem, isNet, onLine, jitter)

\* the suspended activation f resumes, leaves the loop, and the save() of
\* line 478 throws out of Store.set (localStorage.setItem over quota): the
\* assignment of line 477 has run, nothing after line 478 does
flushResumeSaveThrows(q, f, resp, onLine, jitter) ==
  LET r == flushResume(q, f, resp, onLine, jitter)
  IN  [q EXCEPT !.frames = RemoveAt(q.frames, f),
                !.list = r.list,
                !.delivered = r.delivered,
                !.lastRes = r.lastRes,
                !.lastSyncAt = r.lastSyncAt,
                !.lastFromCache = r.lastFromCache,
                !.progress = r.progress]

\* the OfflineQueue object of a new process: list is read from the store, the
\* other fields have their initial values, and the timers and calls of the
\* old process are gone
Boot(q) ==
  [q EXCEPT !.list = q.stored, !.flushing = FALSE, !.retryCount = 0,
            !.timer = 0, !.nextRetryAt = 0, !.armed = 0, !.frames = <<>>,
            !.lastRes = NoRes, !.dropped = FALSE, !.netFails = 0,
            !.netFailsUp = 0, !.fx = NoFx, !.lastFromCache = FALSE,
            !.progress = "idle"]

(* ------------------------------ the vault ----------------------------- *)
\* String(x).toLowerCase() over the identifiers of the model
Lower(x) ==
  CASE x = "A@x" -> "a@x"
    [] x = "V1" -> "v1"
    [] OTHER -> x

\* JSON.parse failed, atob threw, or there was no middle segment
NoPayload == [none |-> TRUE]

\* String(token || "").split(".")
Split(token) == IF token = NoToken THEN <<"">> ELSE token

decodeJwtPayload(token) ==
  LET parts == Split(token)
  IN  IF Len(parts) < 2 THEN NoPayload
      ELSE IF ~parts[2].b64 THEN NoPayload
      ELSE IF ~parts[2].json THEN NoPayload
      ELSE parts[2].val

\* an expiry test that takes a token without a readable payload for valid
isJwtExpired_failOpen(token, skewSeconds, now) ==
  LET payload == decodeJwtPayload(token)
      nowSec == now \div 1000
  IN  IF payload = NoPayload THEN FALSE
      ELSE IF ~payload.hasExp \/ payload.exp = 0 THEN TRUE
      ELSE (payload.exp - skewSeconds) <= nowSec

\* an expiry test with < in place of <=
isJwtExpired_strict(token, skewSeconds, now) ==
  LET payload == decodeJwtPayload(token)
      nowSec == now \div 1000
  IN  IF payload = NoPayload THEN TRUE
      ELSE IF ~payload.hasExp \/ payload.exp = 0 THEN TRUE
      ELSE (payload.exp - skewSeconds) < nowSec

\* isJwtExpired(token, skewSeconds) at Date.now() = now
isJwtExpired(token, skewSeconds, now) ==
  LET payload == decodeJwtPayload(token)
      nowSec == now \div 1000
  IN  IF payload = NoPayload THEN TRUE
      ELSE IF ~payload.hasExp \/ payload.exp = 0 THEN TRUE
      ELSE (payload.exp - skewSeconds) <= nowSec

accountKey(r, loginId) == Lower(r) \o ":" \o Lower(loginId)

\* the part of the store the vault works on
V == [accounts |-> accounts, lastSession |-> lastSession, lastJwt |-> lastJwt,
      lastLoginId |-> lastLoginId, recency |-> recency]

SetV(v) ==
  /\ accounts' = v.accounts
  /\ lastSession' = v.lastSession
  /\ lastJwt' = v.lastJwt
  /\ lastLoginId' = v.lastLoginId
  /\ recency' = v.recency

\* list.slice(0, n)
Take(l, n) == SubSeq(l, 1, Min(n, Len(l)))

\* list.filter(a => a.key !== key)
RECURSIVE WithoutKey(_, _)
WithoutKey(l, key) ==
  IF l = <<>> THEN <<>>
  ELSE IF Head(l).key = key THEN WithoutKey(Tail(l), key)
  ELSE <<Head(l)>> \o WithoutKey(Tail(l), key)

\* a rememberSession that puts the account at the end of the list
rememberSession_push(v, session, token, identifier) ==
  IF session = NoSession \/ token = NoToken THEN v
  ELSE
    LET v1 == [v EXCEPT !.lastSession = session,
                        !.lastJwt = token,
                        !.lastLoginId = IF identifier # NoId
                                          THEN Lower(identifier) ELSE @]
        r == Lower(session.role)
        loginId == Lower(IF identifier # NoId THEN identifier ELSE session.id)
        key == accountKey(r, loginId)
        entry == [key |-> key, role |-> r, loginId |-> loginId,
                  session |-> session, token |-> token]
    IN  IF r = "" \/ loginId = "" THEN v1
        ELSE [v1 EXCEPT
                !.accounts = Take(WithoutKey(v.accounts, key) \o <<entry>>,
                                  MaxAccounts),
                !.recency = <<entry>> \o WithoutKey(v.recency, key)]

\* rememberSession(session, token, identifier); identifier = NoId when the
\* caller passes none.  The name and lastLoginAt fields of an entry, and Store
\* "lastLoginAt", are only displayed and are left out.
rememberSession(v, session, token, identifier) ==
  IF session = NoSession \/ token = NoToken THEN v
  ELSE
    LET v1 == [v EXCEPT !.lastSession = session,
                        !.lastJwt = token,
                        !.lastLoginId = IF identifier # NoId
                                          THEN Lower(identifier) ELSE @]
        r == Lower(session.role)
        loginId == Lower(IF identifier # NoId THEN identifier ELSE session.id)
        key == accountKey(r, loginId)
        entry == [key |-> key, role |-> r, loginId |-> loginId,
                  session |-> session, token |-> token]
    IN  IF r = "" \/ loginId = "" THEN v1
        ELSE [v1 EXCEPT
                !.accounts = Take(<<entry>> \o WithoutKey(v.accounts, key),
                                  MaxAccounts),
                !.recency = <<entry>> \o WithoutKey(v.recency, key)]

Found(item) == [ok |-> TRUE, reason |-> "", item |-> item]

NotFound(reason) == [ok |-> FALSE, reason |-> reason, item |-> [none |-> TRUE]]

\* list.find(a => a.role === r && a.loginId === id) || null
RECURSIVE FindAccount(_, _, _)
FindAccount(l, r, id) ==
  IF l = <<>> THEN [none |-> TRUE]
  ELSE IF Head(l).role = r /\ Head(l).loginId = id THEN Head(l)
  ELSE FindAccount(Tail(l), r, id)

\* the item of findOfflineAccount before its expiry test: the list entry, or
\* the one built from the lastSession / lastJwt / lastLoginId slots
offlineItem(v, r, id) ==
  LET item == FindAccount(v.accounts, r, id)
      legacyRole == IF v.lastSession = NoSession THEN ""
                    ELSE Lower(v.lastSession.role)
      legacyLogin == Lower(v.lastLoginId)
  IN  IF item # [none |-> TRUE] THEN item
      ELSE IF v.lastSession # NoSession /\ v.lastJwt # NoToken
              /\ legacyRole = r /\ legacyLogin = id
        THEN [key |-> accountKey(r, id), role |-> r, loginId |-> id,
              session |-> v.lastSession, token |-> v.lastJwt]
      ELSE [none |-> TRUE]

\* findOfflineAccount(role, loginId) at Date.now() = now
findOfflineAccount(v, role0, loginId, now) ==
  LET r == Lower(role0)
      id == Lower(loginId)
      item == offlineItem(v, r, id)
  IN  IF r = "" \/ id = "" THEN NotFound("missing")
      ELSE IF item = [none |-> TRUE] THEN NotFound("not_found")
      ELSE IF isJwtExpired(item.token, Skew, now) THEN NotFound("expired")
      ELSE Found(item)

\* list.find(a => a.key === key)
RECURSIVE FindKey(_, _)
FindKey(l, key) ==
  IF l = <<>> THEN [none |-> TRUE]
  ELSE IF Head(l).key = key THEN Head(l)
  ELSE FindKey(Tail(l), key)

\* the candidate getOfflineCandidate builds from the lastSession / lastJwt /
\* lastLoginId slots (lines 201-216)
slotItem(v) ==
  IF v.lastSession = NoSession \/ v.lastJwt = NoToken THEN [none |-> TRUE]
  ELSE
    LET r == Lower(v.lastSession.role)
        loginId == Lower(IF v.lastLoginId # NoId THEN v.lastLoginId
                         ELSE v.lastSession.id)
    IN  IF r = "" \/ loginId = "" THEN [none |-> TRUE]
        ELSE [key |-> accountKey(r, loginId), role |-> r, loginId |-> loginId,
              session |-> v.lastSession, token |-> v.lastJwt]

\* a getOfflineCandidate that looks at the slot first
getOfflineCandidate_slotFirst(v, key, now) ==
  LET found == IF key # NoId THEN FindKey(v.accounts, key) ELSE [none |-> TRUE]
      item == IF slotItem(v) # [none |-> TRUE] THEN slotItem(v) ELSE found
      p == decodeJwtPayload(item.token)
  IN  IF item = [none |-> TRUE] THEN NotFound("none")
      ELSE IF isJwtExpired(item.token, Skew, now) THEN NotFound("expired")
      ELSE IF p.role # "" /\ item.session.role # ""
              /\ Lower(p.role) # Lower(item.session.role)
        THEN NotFound("mismatch")
      ELSE Found(item)

\* getOfflineCandidate(key) at Date.now() = now
getOfflineCandidate(v, key, now) ==
  LET found == IF key # NoId THEN FindKey(v.accounts, key) ELSE [none |-> TRUE]
      item == IF found # [none |-> TRUE] THEN found ELSE slotItem(v)
      p == decodeJwtPayload(item.token)
  IN  IF item = [none |-> TRUE] THEN NotFound("none")
      ELSE IF isJwtExpired(item.token, Skew, now) THEN NotFound("expired")
      ELSE IF p.role # "" /\ item.session.role # ""
              /\ Lower(p.role) # Lower(item.session.role)
        THEN NotFound("mismatch")
      ELSE Found(item)

\* Session.data and JWT
S == [role |-> role, sessionId |-> sessionId, jwt |-> jwt]

SetS(s) ==
  /\ role' = s.role
  /\ sessionId' = s.sessionId
  /\ jwt' = s.jwt

\* Session.data = session; setJWT(token)
SignedIn(session, token) ==
  [role |-> session.role, sessionId |-> session.id, jwt |-> token]

\* Session.clear()
SignedOut == [role |-> NoRole, sessionId |-> NoId, jwt |-> NoToken]

\* the test UI.route() starts with: a session without a token, or with an
\* expired one, is cleared
route(s, now) ==
  IF s.role # NoRole /\ (s.jwt = NoToken \/ isJwtExpired(s.jwt, Skew, now))
    THEN SignedOut
    ELSE s

(* ----------------------------- the gateway --------------------------- *)
\* Cache.get(key, maxAgeMs) at instant now
CacheGet_exclusive(c, key, maxAgeMs, now) ==
  LET rec == c[key]
  IN  IF rec = NoRec THEN Null
      ELSE IF rec.t # 0 /\ (now - rec.t) >= maxAgeMs THEN Null
      ELSE rec.v

CacheGet(c, key, maxAgeMs, now) ==
  LET rec == c[key]
  IN  IF rec = NoRec THEN Null
      ELSE IF rec.t # 0 /\ (now - rec.t) > maxAgeMs THEN Null
      ELSE rec.v

\* Cache.set(key, val) at instant now
CacheSet(c, key, val, now) == [c EXCEPT ![key] = [t |-> now, v |-> val]]

\* the part of the state api() works on
G == [cache |-> cache, lastSyncAt |-> lastSyncAt, lastFromCache |-> lastFromCache,
      progress |-> progress, calls |-> calls, lastOp |-> lastOp]

SetG(g) ==
  /\ cache' = g.cache
  /\ lastSyncAt' = g.lastSyncAt
  /\ lastFromCache' = g.lastFromCache
  /\ progress' = g.progress
  /\ calls' = g.calls
  /\ lastOp' = g.lastOp

\* lines 268-272 and 295-299: the value of the cache is handed to the caller
FromCache(g, cached) ==
  [g EXCEPT !.lastFromCache = TRUE,
            !.lastOp = [out |-> "cache", value |-> cached]]

\* api(path, method, body, { cacheKey, cacheMaxAgeMs }) from its call to its
\* return from the cache or to its suspension at fetch
apiBegin(g, method, cacheKey, onLine, now) ==
  LET g0 == [g EXCEPT !.lastFromCache = FALSE]
      cached == CacheGet(g.cache, cacheKey, cacheMaxAgeMs(cacheKey), now)
      fetching == Started([g0 EXCEPT !.calls = Append(@, [method |-> method,
                                                          cacheKey |-> cacheKey])])
  IN  IF method = "GET" /\ cacheKey # NoKey /\ ~onLine
        THEN IF cached # Null THEN FromCache(g0, cached) ELSE fetching
        ELSE fetching

\* an api() that also stamps the last-sync time when it answers from the
\* cache after a failed fetch
apiSettle_stampOnFallback(g, c, resp, body, onLine, now) ==
  LET call == g.calls[c]
      g0 == Answered([g EXCEPT !.calls = RemoveAt(g.calls, c)], resp)
      err == ApiError(resp)
      thrown == [g0 EXCEPT !.lastOp = [out |-> "throw", value |-> err.message]]
  IN  IF resp.kind = "fault"
        THEN IF call.method = "GET" /\ call.cacheKey # NoKey
                  /\ isNetworkError(err, onLine)
               THEN LET cached == CacheGet(g.cache, call.cacheKey,
                                           cacheMaxAgeMs(call.cacheKey), now)
                    IN  IF cached # Null
                          THEN [FromCache(g0, cached) EXCEPT !.lastSyncAt = now]
                          ELSE thrown
               ELSE thrown
      ELSE IF resp.kind = "http" THEN thrown
      ELSE [g0 EXCEPT
              !.lastSyncAt = IF onLine THEN now ELSE @,
              !.cache = IF call.method = "GET" /\ call.cacheKey # NoKey
                          THEN CacheSet(@, call.cacheKey, body, now)
                          ELSE @,
              !.lastFromCache = FALSE,
              !.lastOp = [out |-> "data", value |-> body]]

\* an api() without the assignment of line 315
apiSettle_noReset(g, c, resp, body, onLine, now) ==
  LET call == g.calls[c]
      g0 == Answered([g EXCEPT !.calls = RemoveAt(g.calls, c)], resp)
      err == ApiError(resp)
      thrown == [g0 EXCEPT !.lastOp = [out |-> "throw", value |-> err.message]]
  IN  IF resp.kind = "fault"
        THEN IF call.method = "GET" /\ call.cacheKey # NoKey
                  /\ isNetworkError(err, onLine)
               THEN LET cached == CacheGet(g.cache, call.cacheKey,
                                           cacheMaxAgeMs(call.cacheKey), now)
                    IN  IF cached # Null THEN FromCache(g0, cached) ELSE thrown
               ELSE thrown
      ELSE IF resp.kind = "http" THEN thrown
      ELSE [g0 EXCEPT
              !.lastSyncAt = IF onLine THEN now ELSE @,
              !.cache = IF call.method = "GET" /\ call.cacheKey # NoKey
                          THEN CacheSet(@, call.cacheKey, body, now)
                          ELSE @,
              !.lastOp = [out |-> "data", value |-> body]]

\* api() from the settling of the fetch of call c to its return or throw
apiSettle(g, c, resp, body, onLine, now) ==
  LET call == g.calls[c]
      g0 == Answered([g EXCEPT !.calls = RemoveAt(g.calls, c)], resp)
      err == ApiError(resp)
      thrown == [g0 EXCEPT !.lastOp = [out |-> "throw", value |-> err.message]]
  IN  IF resp.kind = "fault"
        THEN IF call.method = "GET" /\ call.cacheKey # NoKey
                  /\ isNetworkError(err, onLine)
               THEN LET cached == CacheGet(g.cache, call.cacheKey,
                                           cacheMaxAgeMs(call.cacheKey), now)
                    IN  IF cached # Null THEN FromCache(g0, cached) ELSE thrown
               ELSE thrown
      ELSE IF resp.kind = "http" THEN thrown
      ELSE [g0 EXCEPT
              !.lastSyncAt = IF onLine THEN now ELSE @,
              !.cache = IF call.method = "GET" /\ call.cacheKey # NoKey
                          THEN CacheSet(@, call.cacheKey, body, now)
                          ELSE @,
              !.lastFromCache = FALSE,
              !.lastOp = [out |-> "data", value |-> body]]

\* UI.route() after its expiry test, for the session s it found: the
\* table of the role is read through api() (for an administrator the first
\* read, of the vendor list)
refresh(g, s, onLine, now) ==
  IF s.role = NoRole THEN g
  ELSE apiBegin(g, "GET", TableKey(s.role), onLine, now)

\* toast("Session expired. Please login online.") of line 1084
ExpiredToast == [out |-> "toast", value |-> "Session expired. Please login online."]

\* a UI.route() that goes on to read the table after it cleared the session
routeView_readsTable(g, s, onLine, now) ==
  IF route(s, now) # s
    THEN refresh([g EXCEPT !.lastOp = ExpiredToast], s, onLine, now)
    ELSE refresh(g, s, onLine, now)

\* UI.route() for the session s it finds, on the gateway: when the expiry
\* test clears the session it shows the message and returns (the UI.route()
\* that Session.clear() runs finds no session and reads nothing); otherwise
\* it reads the table of the role
routeView(g, s, onLine, now) ==
  IF route(s, now) # s
    THEN [g EXCEPT !.lastOp = ExpiredToast]
    ELSE refresh(g, s, onLine, now)

\* the gateway with nothing cached and no call made
EmptyGateway ==
  [cache |-> [k \in CacheKeys |-> NoRec], lastSyncAt |-> 0,
   lastFromCache |-> FALSE, progress |-> "idle", calls |-> <<>>,
   lastOp |-> NoOp]

\* the vault with nothing stored
EmptyVault ==
  [accounts |-> <<>>, lastSession |-> NoSession, lastJwt |-> NoToken,
   lastLoginId |-> NoId, recency |-> <<>>]

\* the vault of a program that starts with the session of role r: the login
\* that made the session remembered it under the typed identifier, and the
\* script remembers it again when it starts (571-573)
StartVault(r) ==
  IF r = NoRole THEN EmptyVault
  ELSE rememberSession(
         rememberSession(EmptyVault, SessionOf(PersonOf(r)), TokenOf(r),
                         PersonOf(r).login),
         SessionOf(PersonOf(r)), TokenOf(r), NoId)

(* ------------------------------- Init --------------------------------- *)
InitQueue ==
  /\ online \in BOOLEAN
  /\ role \in Roles \cup {NoRole}
  /\ sessionId = IdOf(role)
  /\ jwt = TokenOf(role)
  /\ onlineEvt = 0
  /\ list = <<>>
  /\ stored = <<>>
  /\ flushing = FALSE
  /\ retryCount = 0
  /\ timer = 0
  /\ nextRetryAt = 0
  /\ armed = 0
  /\ frames = <<>>
  /\ nextId = 1
  /\ enqueued = <<>>
  /\ owner = <<>>
  /\ delivered = {}
  /\ lastRes = NoRes
  /\ dropped = FALSE
  /\ netFails = 0
  /\ netFailsUp = 0
  /\ fx = NoFx
  /\ calm = FALSE
  /\ sessions = 0
  /\ clock = Instant0
  /\ cache = [k \in CacheKeys |-> NoRec]
  /\ lastSyncAt = 0
  /\ lastFromCache = FALSE
  /\ progress = refresh(EmptyGateway, [role |-> role], online, Instant0).progress
  /\ calls = refresh(EmptyGateway, [role |-> role], online, Instant0).calls
  /\ accounts = StartVault(role).accounts
  /\ lastSession = StartVault(role).lastSession
  /\ lastJwt = StartVault(role).lastJwt
  /\ lastLoginId = StartVault(role).lastLoginId
  /\ recency = StartVault(role).recency
  /\ lastOp = NoOp

Init == InitQueue /\ budget = MaxItems /\ hist = FALSE

InitLive == InitQueue /\ budget = MaxLiveItems /\ hist = FALSE

\* the same program with the history of dropped requests and failed flushes
\* recorded
InitHist == InitQueue /\ budget = MaxLiveItems /\ hist = TRUE

(* ------------------------------ actions ------------------------------- *)
\* OfflineQueue.enqueue called with a type
Enqueue(type) ==
  /\ ~calm
  /\ nextId <= budget
  /\ \E q \in {enqueue(Q, nextId, type, online, j) : j \in Jitters} : SetQ(q)
  /\ nextId' = nextId + 1
  /\ enqueued' = Append(enqueued, Entry(nextId, type))
  /\ owner' = Append(owner, jwt)
  /\ UNCHANGED <<online, role, sessionId, jwt, onlineEvt, calm, budget, hist, sessions,
                 gatewayVars, vaultVars, lastOp>>

\* Reports.submit by a user session: queued when offline, or when the direct
\* call failed with a network error
Submit == role = "user" /\ Enqueue("report.create")

\* Reports.assign on the admin dashboard, offline branch
Assign == role = "admin" /\ ~online /\ Enqueue("admin.assign")

\* Reports.adminUpdateStatus on the admin dashboard, offline branch
AdminUpdateStatus == role = "admin" /\ ~online /\ Enqueue("admin.status")

\* Reports.vendorComplete by a vendor session, offline branch
VendorComplete == role = "vendor" /\ ~online /\ Enqueue("vendor.complete")

\* the retry timer fires at its deadline: the callback clears _timer (and
\* leaves _nextRetryAt, now a past instant) and calls flush()
TimerFire ==
  /\ armed > 0
  /\ Len(frames) < MaxFrames
  /\ \E q \in {flush([Q EXCEPT !.timer = 0, !.nextRetryAt = Past, !.armed = @ - 1],
                      FALSE, online, j) : j \in Jitters} : SetQ(q)
  /\ UNCHANGED <<online, role, sessionId, jwt, onlineEvt, nextId, enqueued, owner, calm,
                 budget, hist, sessions, gatewayVars, vaultVars, lastOp>>

\* navigator.onLine turns true; the platform queues an "online" event
GoOnline ==
  /\ ~online
  /\ onlineEvt < MaxEvents
  /\ online' = TRUE
  /\ onlineEvt' = onlineEvt + 1
  /\ UNCHANGED <<role, sessionId, jwt, list, stored, flushing, retryCount, timer,
                 nextRetryAt, armed, frames, nextId, enqueued, owner,
                 delivered, lastRes, dropped, netFails, netFailsUp, fx, calm,
                 budget, hist, sessions, lastSyncAt, lastFromCache, progress,
                 gatewayVars, vaultVars, lastOp>>

\* navigator.onLine turns false; the "offline" listener only redraws status
GoOffline ==
  /\ online
  /\ ~calm
  /\ online' = FALSE
  /\ UNCHANGED <<role, sessionId, jwt, onlineEvt, list, stored, flushing, retryCount,
                 timer, nextRetryAt, armed, frames, nextId, enqueued, owner,
                 delivered, lastRes, dropped, netFails, netFailsUp, fx, calm,
                 budget, hist, sessions, lastSyncAt, lastFromCache, progress,
                 gatewayVars, vaultVars, lastOp>>

\* an "online" listener that only redraws the status
OnlineHandler_noFlush ==
  /\ onlineEvt > 0
  /\ onlineEvt' = onlineEvt - 1
  /\ UNCHANGED <<online, role, sessionId, jwt, list, stored, flushing, retryCount, timer,
                 nextRetryAt, armed, frames, nextId, enqueued, owner,
                 delivered, lastRes, dropped, netFails, netFailsUp, fx, calm,
                 budget, hist, sessions, lastSyncAt, lastFromCache, progress,
                 gatewayVars, vaultVars, lastOp>>

\* an "online" listener that calls flush(true)
OnlineHandler_forced ==
  /\ onlineEvt > 0
  /\ Len(frames) < MaxFrames
  /\ onlineEvt' = onlineEvt - 1
  /\ \E q \in {flush(Q, TRUE, online, j) : j \in Jitters} : SetQ(q)
  /\ UNCHANGED <<online, role, sessionId, jwt, nextId, enqueued, owner, calm, budget,
                 hist, sessions, gatewayVars, vaultVars, lastOp>>

\* the "online" listener of Net.init
OnlineHandler ==
  /\ onlineEvt > 0
  /\ Len(frames) < MaxFrames
  /\ onlineEvt' = onlineEvt - 1
  /\ \E q \in {flush(Q, FALSE, online, j) : j \in Jitters} : SetQ(q)
  /\ UNCHANGED <<online, role, sessionId, jwt, nextId, enqueued, owner, calm, budget,
                 hist, sessions, gatewayVars, vaultVars, lastOp>>

\* UI.syncNow: flush(true)
SyncNow ==
  /\ ~calm
  /\ Len(frames) < MaxFrames
  /\ \E q \in {flush(Q, TRUE, online, j) : j \in Jitters} : SetQ(q)
  /\ UNCHANGED <<online, role, sessionId, jwt, onlineEvt, nextId, enqueued, owner, calm,
                 budget, hist, sessions, gatewayVars, vaultVars, lastOp>>

\* the remote call of a suspended flush settles and the flush runs on
ApiReturn ==
  \E f \in 1..Len(frames) :
    \E resp \in Responses :
      /\ calm => resp.kind = "ok"
      /\ \E q \in {flushResume(Q, f, resp, online, j) : j \in Jitters} : SetQ(q)
      /\ UNCHANGED <<online, role, sessionId, jwt, onlineEvt, nextId, enqueued, owner,
                     calm, budget, hist, sessions, gatewayVars, vaultVars,
                     lastOp>>

Next ==
  \/ Submit
  \/ Assign
  \/ AdminUpdateStatus
  \/ VendorComplete
  \/ TimerFire
  \/ GoOnline
  \/ GoOffline
  \/ OnlineHandler
  \/ SyncNow
  \/ ApiReturn

Spec == Init /\ [][Next]_vars

SpecHist == InitHist /\ [][Next]_vars

\* Connectivity comes up for good: navigator.onLine turns true and from here
\* on it stays true, every remote call that settles succeeds and the user
\* does nothing (see the guards on calm in the other actions).
Settle ==
  /\ ~online
  /\ ~calm
  /\ onlineEvt < MaxEvents
  /\ online' = TRUE
  /\ onlineEvt' = onlineEvt + 1
  /\ calm' = TRUE
  /\ UNCHANGED <<role, sessionId, jwt, list, stored, flushing, retryCount, timer,
                 nextRetryAt, armed, frames, nextId, enqueued, owner,
                 delivered, lastRes, dropped, netFails, netFailsUp, fx,
                 budget, hist, sessions, lastSyncAt, lastFromCache, progress,
                 gatewayVars, vaultVars, lastOp>>

NextLive == Next \/ Settle

\* the event loop does not stop while a callback is ready to run: a due
\* timer, a dispatched online event or a settled fetch
Fairness == WF_vars(TimerFire \/ OnlineHandler \/ ApiReturn)

LiveSpec == InitLive /\ [][NextLive]_vars /\ Fairness

\* the remote call of a suspended flush settles, the loop is left and the
\* write of the queue to the store fails
ApiReturnSaveThrows ==
  \E f \in 1..Len(frames) :
    \E resp \in Responses :
      \E j \in Jitters :
        /\ ~flushResume(Q, f, resp, online, j).flushing
        /\ SetQ(flushResumeSaveThrows(Q, f, resp, online, j))
        /\ UNCHANGED <<online, role, sessionId, jwt, onlineEvt, nextId, enqueued, owner,
                       calm, budget, hist, sessions, gatewayVars, vaultVars,
                       lastOp>>

NextSaveThrows == Next \/ ApiReturnSaveThrows

\* the program on a store whose writes can fail
SpecSaveThrows == Init /\ [][NextSaveThrows]_vars

\* the process is killed and started again: the script runs from the top
\* with Session and JWT read back from the store, and Net.init calls flush()
\* if navigator.onLine
Restart ==
  /\ ~calm
  /\ LET g == routeView([G EXCEPT !.calls = <<>>, !.progress = "idle"],
                        S, online, clock)
     IN  /\ \E q \in {IF online THEN flush(Boot(Q), FALSE, online, j) ELSE Boot(Q) :
                       j \in Jitters} :
               SetQ([q EXCEPT !.lastFromCache = g.lastFromCache,
                              !.progress = IF g.progress = "running"
                                             THEN "running" ELSE @])
         /\ calls' = g.calls
         /\ lastOp' = g.lastOp
  /\ onlineEvt' = 0
  /\ SetV(IF role # NoRole /\ jwt # NoToken /\ ~isJwtExpired(jwt, Skew, clock)
            THEN rememberSession(V, [role |-> role, id |-> sessionId], jwt, NoId)
            ELSE V)
  /\ SetS(route(S, clock))
  /\ UNCHANGED <<online, nextId, enqueued, owner, calm, budget, hist, sessions,
                 clock, cache>>

NextRestart == Next \/ Restart

SpecRestart == Init /\ [][NextRestart]_vars

\* Auth.userLogin / vendorLogin / adminLogin from the auth screen, online or
\* from a remembered offline account: setJWT(token), Session.data set
Login(r) ==
  /\ role = NoRole
  /\ ~calm
  /\ sessions < MaxSessions
  /\ sessions' = sessions + 1
  /\ role' = r
  /\ sessionId' = IdOf(r)
  /\ jwt' = TokenOf(r)
  /\ UNCHANGED <<online, onlineEvt, list, stored, flushing, retryCount, timer,
                 nextRetryAt, armed, frames, nextId, enqueued, owner,
                 delivered, lastRes, dropped, netFails, netFailsUp, fx, calm,
                 budget, hist, lastSyncAt, lastFromCache, progress, gatewayVars,
                 vaultVars, lastOp>>

\* Session.clear(), from Auth.logout or from UI.route() finding the token
\* expired: Session.data = null, setJWT(null)
Logout ==
  /\ role # NoRole
  /\ ~calm
  /\ sessions < MaxSessions
  /\ sessions' = sessions + 1
  /\ role' = NoRole
  /\ sessionId' = NoId
  /\ jwt' = NoToken
  /\ UNCHANGED <<online, onlineEvt, list, stored, flushing, retryCount, timer,
                 nextRetryAt, armed, frames, nextId, enqueued, owner,
                 delivered, lastRes, dropped, netFails, netFailsUp, fx, calm,
                 budget, hist, lastSyncAt, lastFromCache, progress, gatewayVars,
                 vaultVars, lastOp>>

NextSession == Next \/ Logout \/ \E r \in Roles : Login(r)

\* the program with sessions that begin and end
SpecSession == InitLive /\ [][NextSession]_vars

\* the queue variables and the session, which the gateway does not write
queueVars == <<role, sessionId, jwt, list, stored, flushing, retryCount, timer, nextRetryAt,
               armed, frames, nextId, enqueued, owner, delivered, lastRes, dropped,
               netFails, netFailsUp, fx, calm, budget, hist, sessions>>

\* time passes
Tick ==
  /\ \E t \in Instants : t > clock /\ clock' = t
  /\ UNCHANGED <<online, onlineEvt, queueVars, cache, lastSyncAt, lastFromCache, progress,
                 calls, vaultVars, lastOp>>

\* a view calls api(path, method, body, { cacheKey, cacheMaxAgeMs }): the call
\* of Reports.refreshUserTable (771), a GET without cacheKey or a direct POST
ApiCall(method, cacheKey) ==
  /\ Len(calls) < MaxCalls
  /\ SetG(apiBegin(G, method, cacheKey, online, clock))
  /\ UNCHANGED <<online, onlineEvt, queueVars, clock, vaultVars>>

\* the fetch of the suspended call c settles with resp, the body of a success
\* response being body, and api() returns or throws
ApiSettleWith(c, resp, body) ==
  /\ c \in 1..Len(calls)
  /\ "login" \notin DOMAIN calls[c]
  /\ "action" \notin DOMAIN calls[c]
  /\ SetG(apiSettle(G, c, resp, body, online, clock))
  /\ UNCHANGED <<online, onlineEvt, queueVars, clock, vaultVars>>

\* what a fetch can settle with: a success response with one of the bodies,
\* or a failure (whose body, if any, is only read for its error text)
Outcomes ==
  {<<resp, body>> \in Responses \X (Bodies \cup {Null}) :
     resp.kind = "ok" <=> body # Null}

ApiSettle ==
  \E c \in 1..Len(calls) :
    \E o \in Outcomes : ApiSettleWith(c, o[1], o[2])

InitGateway == InitQueue /\ role = NoRole /\ budget = 0 /\ hist = FALSE

NextGateway ==
  \/ \E shape \in CallShapes : ApiCall(shape[1], shape[2])
  \/ ApiSettle
  \/ Tick
  \/ GoOnline
  \/ GoOffline
  \/ OnlineHandler

\* the gateway and the cache under the calls of the views, with no session
\* and an empty queue
SpecGateway == InitGateway /\ [][NextGateway]_vars

\* rememberSession is called for a person: by a login handler, with the
\* typed identifier (606, 627, 648), or at the start of the script, without
\* one (572)
RememberSession(person, identifier) ==
  /\ SetV(rememberSession(V, SessionOf(person), TokenOf(person.role), identifier))
  /\ UNCHANGED <<online, onlineEvt, queueVars, gatewayVars, lastSyncAt,
                 lastFromCache, progress, lastOp>>

\* UI.clearOfflineSession
ClearOfflineSession ==
  /\ accounts' = <<>>
  /\ lastSession' = NoSession
  /\ lastJwt' = NoToken
  /\ lastLoginId' = NoId
  /\ recency' = <<>>
  /\ UNCHANGED <<online, onlineEvt, queueVars, gatewayVars, lastSyncAt,
                 lastFromCache, progress, lastOp>>

InitVault == InitQueue /\ role = NoRole /\ ~online /\ budget = 0 /\ hist = FALSE

NextVault ==
  \E person \in People :
       \E identifier \in {person.login, NoId} : RememberSession(person, identifier)

\* the account list under any sequence of rememberSession calls
SpecVault == InitVault /\ [][NextVault]_vars

\* the login calls awaiting their response
Logins == {c \in 1..Len(calls) : "login" \in DOMAIN calls[c]}

\* the account the service knows under an identifier
Registered(r, typed) ==
  {person \in Cast : person.role = r /\ person.login = Lower(typed)}

\* Auth.userLogin / vendorLogin / adminLogin with navigator.onLine, up to the
\* await of api("/auth/<role>/login", "POST", ...): the form of role r is
\* submitted with the identifier typed
LoginOnline(r, typed) ==
  /\ online
  /\ role = NoRole
  /\ Len(calls) < MaxLogins
  /\ Registered(r, typed) # {}
  /\ LET g == apiBegin(G, "POST", NoKey, online, clock)
         n == Len(g.calls)
     IN  SetG([g EXCEPT !.calls[n] = [method |-> "POST", cacheKey |-> NoKey,
                                      login |-> [role |-> r, typed |-> typed]]])
  /\ UNCHANGED <<online, onlineEvt, queueVars, clock, vaultVars>>

\* the response of login call c arrives: api() returns r or throws, and on a
\* return the handler runs setJWT(r.token), builds Session.data, calls
\* rememberSession with the typed identifier and Session.save(), whose
\* UI.route() applies the expiry test
LoginSettle(c, resp, token) ==
  /\ c \in Logins
  /\ LET call == calls[c]
         g == apiSettle(G, c, resp, "session", online, clock)
         person == CHOOSE someone \in Registered(call.login.role, call.login.typed) : TRUE
         session == SessionOf(person)
     IN  /\ resp.kind = "ok" <=> token \in Issued(call.login.role)
         /\ resp.kind # "ok" => token = NoToken
         /\ IF resp.kind = "ok"
              THEN /\ SetV(rememberSession(V, session, token, call.login.typed))
                   /\ SetS(route(SignedIn(session, token), clock))
                   /\ SetG(routeView(g, SignedIn(session, token), online, clock))
              ELSE /\ SetG(g)
                   /\ UNCHANGED <<vaultVars, role, sessionId, jwt>>
  /\ UNCHANGED <<online, onlineEvt, list, stored, flushing, retryCount, timer,
                 nextRetryAt, armed, frames, nextId, enqueued, owner,
                 delivered, lastRes, dropped, netFails, netFailsUp, fx, calm,
                 budget, hist, sessions, clock>>

\* an offline login that remembers the session it resumes, as the online
\* one does
LoginOffline_remember(r, typed) ==
  /\ ~online
  /\ role = NoRole
  /\ Len(calls) < MaxLogins
  /\ LET cand == findOfflineAccount(V, r, typed, clock)
         s == SignedIn(cand.item.session, cand.item.token)
     IN  IF typed # NoId /\ cand.ok
           THEN /\ SetS(route(s, clock))
                /\ SetG(routeView(G, s, online, clock))
                /\ SetV(rememberSession(V, cand.item.session, cand.item.token, typed))
           ELSE UNCHANGED <<role, sessionId, jwt, cache, lastSyncAt,
                            lastFromCache, progress, calls, lastOp, vaultVars>>
  /\ UNCHANGED <<online, onlineEvt, list, stored, flushing, retryCount, timer,
                 nextRetryAt, armed, frames, nextId, enqueued, owner,
                 delivered, lastRes, dropped, netFails, netFailsUp, fx, calm,
                 budget, hist, sessions, clock>>

\* Auth.userLogin / vendorLogin / adminLogin without navigator.onLine: the
\* form of role r is submitted with the identifier typed; Session.save()
\* runs UI.route()
LoginOffline(r, typed) ==
  /\ ~online
  /\ role = NoRole
  /\ Len(calls) < MaxLogins
  /\ LET cand == findOfflineAccount(V, r, typed, clock)
         s == SignedIn(cand.item.session, cand.item.token)
     IN  IF typed # NoId /\ cand.ok
           THEN /\ SetS(route(s, clock))
                /\ SetG(routeView(G, s, online, clock))
           ELSE UNCHANGED <<role, sessionId, jwt, cache, lastSyncAt,
                            lastFromCache, progress, calls, lastOp>>
  /\ UNCHANGED <<online, onlineEvt, list, stored, flushing, retryCount, timer,
                 nextRetryAt, armed, frames, nextId, enqueued, owner,
                 delivered, lastRes, dropped, netFails, netFailsUp, fx, calm,
                 budget, hist, sessions, clock, vaultVars>>

\* Auth.logout
AuthLogout ==
  /\ role # NoRole
  /\ SetS(SignedOut)
  /\ UNCHANGED <<online, onlineEvt, list, stored, flushing, retryCount, timer,
                 nextRetryAt, armed, frames, nextId, enqueued, owner,
                 delivered, lastRes, dropped, netFails, netFailsUp, fx, calm,
                 budget, hist, sessions, lastSyncAt, lastFromCache, progress,
                 gatewayVars, vaultVars, lastOp>>

\* what the read of a table settles with
TableOutcomes == {o \in Outcomes : o[1].kind # "http" /\ o[2] # "rows2"}

\* the tokens the service issues where the accounts of Cast sign in: one
\* with a far exp for each role, and for a user also one that expires soon
AuthTokens ==
  {TokenOf(r) : r \in Roles}
  \cup {Jwt([hasExp |-> TRUE, exp |-> SoonExp, role |-> "user"])}

\* the tokens the service issues where one user signs in and token checking
\* is put to the test
FailSafeTokens == {TokenOf("user")} \cup Malformed("user")

InitAuth == InitQueue /\ role = NoRole /\ ~calm /\ budget = 0 /\ hist = FALSE

NextAuth ==
  \/ \E r \in Roles : \E typed \in TypedIds : LoginOnline(r, typed)
  \/ \E c \in 1..MaxCalls : \E resp \in LoginResponses :
       \E token \in AuthTokens \cup {NoToken} : LoginSettle(c, resp, token)
  \/ \E r \in Roles : \E typed \in TypedIds : LoginOffline(r, typed)
  \/ \E c \in 1..MaxCalls : \E o \in TableOutcomes : ApiSettleWith(c, o[1], o[2])
  \/ AuthLogout
  \/ Restart
  \/ ClearOfflineSession
  \/ GoOnline
  \/ GoOffline
  \/ OnlineHandler

\* the people of Cast signing in and out, online and offline
SpecAuth == InitAuth /\ [][NextAuth]_vars

\* isJwtExpired(token, skewSeconds) is called
IsJwtExpired(token, skewSeconds) ==
  /\ lastOp' = [out |-> "isJwtExpired", value |-> Null,
                expired |-> isJwtExpired(token, skewSeconds, clock),
                token |-> token, skew |-> skewSeconds, at |-> clock]
  /\ UNCHANGED <<online, onlineEvt, queueVars, gatewayVars, lastSyncAt,
                 lastFromCache, progress, vaultVars>>

InitExpiry == InitQueue /\ role = NoRole /\ ~online /\ budget = 0 /\ hist = FALSE

NextExpiry ==
  \/ \E token \in ProbeTokens : \E skewSeconds \in Skews :
       IsJwtExpired(token, skewSeconds)
  \/ Tick

\* the expiry test applied to tokens as time passes
SpecExpiry == InitExpiry /\ [][NextExpiry]_vars

NextFailSafe ==
  \/ \E typed \in TypedIds : LoginOnline("user", typed)
  \/ \E c \in 1..MaxCalls : \E resp \in LoginResponses :
       \E token \in FailSafeTokens \cup {NoToken} : LoginSettle(c, resp, token)
  \/ \E typed \in TypedIds : LoginOffline("user", typed)
  \/ \E c \in 1..MaxCalls : \E o \in TableOutcomes : ApiSettleWith(c, o[1], o[2])
  \/ AuthLogout
  \/ Restart
  \/ GoOnline
  \/ GoOffline
  \/ OnlineHandler

\* one user signing in and out while the service issues tokens that cannot be
\* decoded or have no exp claim
SpecFailSafe == InitAuth /\ [][NextFailSafe]_vars

\* enqueue called directly with a type outside the dispatch chain
EnqueueOther == Enqueue(OtherKind)

NextAnyKind == Next \/ EnqueueOther

SpecAnyKind == Init /\ [][NextAnyKind]_vars

(* ----------------------- the offline candidate ------------------------ *)
\* the tokens sessions are remembered with where the candidate lookup is
\* put to the test: the user's and the vendor's good tokens, a user token
\* within the skew of its expiry, and a good token without a role claim
CandidateTokens ==
  {TokenOf("user"), TokenOf("vendor"),
   Jwt([hasExp |-> TRUE, exp |-> SoonExp, role |-> "user"]),
   Jwt([hasExp |-> TRUE, exp |-> FarExp, role |-> ""])}

\* the keys the lookup is made with: none, those of the Cast, and one that
\* no account has
CandidateKeys == {NoId, "user:a@x", "vendor:v1", "user:nobody"}

\* rememberSession(session, token, identifier) with the token of a login
\* response
RememberWith(person, token, identifier) ==
  /\ SetV(rememberSession(V, SessionOf(person), token, identifier))
  /\ UNCHANGED <<online, onlineEvt, queueVars, gatewayVars, lastSyncAt,
                 lastFromCache, progress, lastOp>>

\* getOfflineCandidate(key): lastOp keeps what the caller got
GetOfflineCandidate(key) ==
  /\ lastOp' = [out |-> "getOfflineCandidate", value |-> Null, key |-> key,
                res |-> getOfflineCandidate(V, key, clock)]
  /\ UNCHANGED <<online, onlineEvt, queueVars, gatewayVars, lastSyncAt,
                 lastFromCache, progress, vaultVars>>

NextCandidate ==
  \/ \E person \in Cast : \E token \in CandidateTokens :
       \E identifier \in {person.login, NoId} : RememberWith(person, token, identifier)
  \/ \E key \in CandidateKeys : GetOfflineCandidate(key)
  \/ ClearOfflineSession

\* candidate lookups over the vaults that remembered sessions leave
SpecCandidate == InitVault /\ [][NextCandidate]_vars

(* ------------------------- routing, with a queue ---------------------- *)
\* the tokens the service answers a login with where routing is put to the
\* test: a good one, and one that is within the skew of its expiry
RouteTokens ==
  {TokenOf("user"), Jwt([hasExp |-> TRUE, exp |-> SoonExp, role |-> "user"])}

\* a success response
Accepted == [kind |-> "ok", status |-> 200, error |-> ""]

InitRoute == InitLive /\ role = "user" /\ online

NextRoute ==
  \/ Submit
  \/ TimerFire
  \/ ApiReturn
  \/ LoginOnline("user", "a@x")
  \/ \E c \in 1..MaxCalls : \E token \in RouteTokens :
       LoginSettle(c, Accepted, token)
  \/ \E c \in 1..MaxCalls : ApiSettleWith(c, Accepted, "rows1")
  \/ AuthLogout

\* a user whose reports wait in the queue signs out and in again, online
SpecRoute == InitRoute /\ [][NextRoute]_vars

(* -------------------------- the cache, probed -------------------------- *)
\* the maximum ages Cache.get is probed with: one millisecond either side of
\* the age a record written at one instant has at a later one
MaxAges == {FiveMinutes - 1, FiveMinutes, FiveMinutes + 1}

\* the keys the probes write and read
ProbeKeys == {"reports.me", "vendors"}

\* Cache.set(key, val)
CachePut(key, val) ==
  /\ cache' = CacheSet(cache, key, val, clock)
  /\ UNCHANGED <<online, onlineEvt, queueVars, clock, calls, lastSyncAt,
                 lastFromCache, progress, vaultVars, lastOp>>

\* Cache.get(key, maxAgeMs): lastOp keeps what the caller got, together with
\* the record that was in the store and the instant of the call
CacheProbe(key, maxAgeMs) ==
  /\ lastOp' = [out |-> "Cache.get",
                value |-> CacheGet(cache, key, maxAgeMs, clock),
                rec |-> cache[key], maxAge |-> maxAgeMs, at |-> clock]
  /\ UNCHANGED <<online, onlineEvt, queueVars, gatewayVars, lastSyncAt,
                 lastFromCache, progress, vaultVars>>

InitCache == InitQueue /\ role = NoRole /\ ~online /\ budget = 0 /\ hist = FALSE

NextCache ==
  \/ \E key \in ProbeKeys : \E val \in Bodies : CachePut(key, val)
  \/ \E key \in ProbeKeys : \E maxAgeMs \in MaxAges : CacheProbe(key, maxAgeMs)
  \/ Tick

\* records written to the cache and read back as time passes
SpecCache == InitCache /\ [][NextCache]_vars

(* --------------------- the handlers, when online ---------------------- *)
\* the session a handler of a kind acts for
RoleOf(type) ==
  CASE type = "report.create" -> "user"
    [] type = "vendor.complete" -> "vendor"
    [] OTHER -> "admin"

\* the cacheKey of the table the handler of a kind reads again when it is
\* done: of the refresh calls it makes, the one whose role test passes
ViewKey(type) ==
  CASE type = "report.create" -> "reports.me"
    [] type = "vendor.complete" -> "reports.vendor"
    [] OTHER -> AdminKey

\* Reports.refreshUserTable / refreshVendorTable / refreshAdminTable called
\* by the handler of a kind, up to the await of its api()
refreshView(g, type, r, token, onLine, now) ==
  IF r # RoleOf(type) \/ token = NoToken THEN g
  ELSE apiBegin(g, "GET", ViewKey(type), onLine, now)

\* Reports.submit / vendorComplete / assign / adminUpdateStatus with
\* navigator.onLine true, up to the await of api(..., "POST", ...)
Direct(type) ==
  /\ ~calm
  /\ online
  /\ role = RoleOf(type)
  /\ Len(calls) < MaxCalls
  /\ type = "report.create" => nextId <= budget
  /\ SetG([apiBegin(G, "POST", NoKey, online, clock) EXCEPT
             !.calls[Len(calls) + 1] =
               [method |-> "POST", cacheKey |-> NoKey, action |-> type]])
  /\ UNCHANGED <<online, onlineEvt, queueVars, clock, vaultVars>>

\* the api() of a handler settles and the handler runs to its end: on a
\* result it reads its table again; Reports.submit catches a network error,
\* queues the report and reads its table; every other error reaches
\* catch (e) { oops(e); }
DirectSettle(c, resp) ==
  /\ c \in 1..Len(calls)
  /\ "action" \in DOMAIN calls[c]
  /\ LET type == calls[c].action
         g == apiSettle(G, c, resp, "done", online, clock)
         view == refreshView(g, type, role, jwt, online, clock)
     IN  IF resp.kind = "ok"
           THEN SetG(view) /\ UNCHANGED queueVars
         ELSE IF type = "report.create" /\ isNetworkError(ApiError(resp), online)
           THEN /\ nextId <= budget
                /\ \E q \in {enqueue([Q EXCEPT !.lastSyncAt = view.lastSyncAt,
                                                !.lastFromCache = view.lastFromCache,
                                                !.progress = view.progress],
                                      nextId, type, online, j) : j \in Jitters} :
                      SetQ(q)
                /\ nextId' = nextId + 1
                /\ enqueued' = Append(enqueued, Entry(nextId, type))
                /\ owner' = Append(owner, jwt)
                /\ cache' = view.cache
                /\ calls' = view.calls
                /\ lastOp' = view.lastOp
                /\ UNCHANGED <<role, sessionId, jwt, calm, budget, hist, sessions>>
         ELSE SetG(g) /\ UNCHANGED queueVars
  /\ UNCHANGED <<online, onlineEvt, clock, vaultVars>>

\* Reports.submit with navigator.onLine false
SubmitOffline == ~online /\ Submit

\* a table read of a handler or of the route settles with rows
ViewSettle == \E c \in 1..MaxCalls : ApiSettleWith(c, Accepted, "rows1")

NextDirect ==
  \/ \E type \in KnownKinds : Direct(type)
  \/ \E c \in 1..MaxCalls : \E resp \in Responses : DirectSettle(c, resp)
  \/ ViewSettle
  \/ SubmitOffline
  \/ Assign
  \/ AdminUpdateStatus
  \/ VendorComplete
  \/ GoOnline
  \/ GoOffline

SpecDirect == InitLive /\ [][NextDirect]_vars

(* ------------------------- history operators -------------------------- *)
Ids(l) == {l[n].id : n \in 1..Len(l)}

\* the fields enqueue gave an item
Core(item) == [id |-> item.id, type |-> item.type]

CoreSeq(l) == [n \in 1..Len(l) |-> Core(l[n])]

Undelivered(e) == e.id \notin delivered

\* the enqueued entries not yet delivered, in the order of their enqueue calls
Pending == SelectSeq(enqueued, Undelivered)

(* ------------------------------ claims -------------------------------- *)

\* C1: whenever no flush is in progress, the queue holds exactly the enqueued
\* items whose remote call has not succeeded, in the order they were enqueued
\* (nothing reordered, duplicated or dropped); while a flush is suspended the
\* queue still holds every such item in that order, behind at most a prefix
\* of already delivered ones.
C1_FifoUnderPartialFailure ==
  /\ ~flushing => CoreSeq(list) = CoreSeq(Pending)
  /\ flushing =>
       \E n \in 0..Len(list) :
         /\ CoreSeq(Slice(list, n + 1)) = CoreSeq(Pending)
         /\ \A k \in 1..n : list[k].id \in delivered

\* an item was delivered, a later one failed, and one more was enqueued
\* behind it
C1_Witness ==
  /\ ~flushing
  /\ delivered # {}
  /\ lastRes.cls \in {"net", "logical"}
  /\ Len(list) >= 1
  /\ list[1].id > 1

\* C2: an item leaves the queue only after a remote call made for it has
\* returned success, whatever type value enqueue was given.
C2_RemovedOnlyAfterSuccess ==
  \A n \in 1..Len(enqueued) :
    enqueued[n].id \notin Ids(list) => enqueued[n].id \in delivered

\* C3: a suspended flush is dispatching an item only if every item enqueued
\* before it has been delivered, and once a remote call of a flush has failed
\* (network or logical) that flush is over: nothing behind the failed item is
\* in flight and the failed item is the head of the queue.
C3_NoSkipAhead ==
  /\ \A f \in 1..Len(frames) :
       \A n \in 1..Len(enqueued) :
         enqueued[n].id < frames[f].item.id => enqueued[n].id \in delivered
  /\ lastRes.cls \in {"net", "logical"} =>
       /\ frames = <<>>
       /\ ~flushing
       /\ list # <<>>
       /\ \A n \in 1..Len(enqueued) :
            enqueued[n].id < list[1].id <=> enqueued[n].id \in delivered

\* a flush failed on an item that has another item queued behind it and
\* has ended
C3_Witness ==
  /\ lastRes.cls \in {"net", "logical"}
  /\ Len(list) >= 2
  /\ frames = <<>>

\* a step that handles an "online" event or fires the retry timer while a
\* flush stays suspended
FlushRequestWhileFlushing ==
  /\ flushing
  /\ flushing'
  /\ \/ onlineEvt' < onlineEvt
     \/ timer # 0 /\ timer' = 0

\* C4: at most one flush is suspended on a remote call at any time, and a
\* flush request that arrives meanwhile (retry timer, online event; a forced
\* sync leaves the whole state as it is) dispatches nothing and leaves the
\* queue, the persisted queue and the retry counter unchanged.
C4_MutualExclusion ==
  /\ [](Len(frames) <= 1 /\ (flushing <=> Len(frames) = 1))
  /\ [][FlushRequestWhileFlushing =>
         /\ frames' = frames
         /\ list' = list
         /\ stored' = stored
         /\ delivered' = delivered
         /\ retryCount' = retryCount]_vars

\* a flush is suspended while a retry timer is armed and an online event waits
C4_Witness ==
  /\ flushing
  /\ Len(frames) = 1
  /\ timer # 0
  /\ onlineEvt > 0

\* a step in which the remote call of the suspended flush settles with a
\* failure of class cls
FailStep(cls) ==
  /\ Len(frames) = 1
  /\ frames' = <<>>
  /\ lastRes'.cls = cls

\* C5: once connectivity has come up for good, the remote service accepts
\* every call and the user does nothing more, every queued item is eventually
\* delivered and the queue becomes empty (the event loop being fair to timer
\* callbacks, online events and settling fetches).
C5_AtLeastOnce ==
  calm ~> (list = <<>> /\ \A n \in 1..Len(enqueued) : enqueued[n].id \in delivered)

\* connectivity has come up for good, the online event was handled and the
\* queue has drained
C5_Witness ==
  /\ calm
  /\ list = <<>>
  /\ stored = <<>>
  /\ enqueued # <<>>
  /\ \A n \in 1..Len(enqueued) : enqueued[n].id \in delivered
  /\ lastRes.cls = "ok"
  /\ onlineEvt = 0

\* C6: when the dispatch of an item fails with a LogicalError the flush stops
\* in that step; the queue becomes that item followed by the items that were
\* behind it, unchanged and in order; the failed item keeps its id and type
\* and gains the error text and failedAt; none of the items behind it has
\* been dispatched.
C6_LogicalErrorStops ==
  [][FailStep("logical") =>
       LET i == frames[1].i
       IN  /\ ~flushing'
           /\ Len(list') = Len(list) - i + 1
           /\ Core(list'[1]) = Core(list[i])
           /\ list'[1].error = lastRes'.message
           /\ list'[1].error # NoError
           /\ list'[1].failedAt # 0
           /\ \A k \in 2..Len(list') :
                /\ list'[k] = list[i + k - 1]
                /\ list'[k].id \notin delivered'
                /\ list'[k].error = NoError
           /\ stored' = list']_vars

\* two items are queued, the first was rejected and annotated, the second
\* is untouched
C6_Witness ==
  /\ lastRes.cls = "logical"
  /\ ~flushing
  /\ Len(list) = 2
  /\ list[1].error # NoError
  /\ list[2].error = NoError
  /\ delivered = {}

\* C7: when the dispatch of an item fails with a NetworkError the flush stops
\* in that step and the queue becomes the failed item followed by all later
\* items, each exactly as it was before (no error, no failedAt added or
\* changed).
C7_NetworkErrorStops ==
  [][FailStep("net") =>
       /\ ~flushing'
       /\ list' = Slice(list, frames[1].i)
       /\ list' # <<>>
       /\ list'[1] = frames[1].item
       /\ stored' = list']_vars

\* a flush stopped on a NetworkError with two items left, the first of which
\* still has the annotation of an earlier rejection
C7_Witness ==
  /\ lastRes.cls = "net"
  /\ ~flushing
  /\ Len(list) = 2
  /\ list[1].error # NoError

Blocked == lastRes.cls = "logical" /\ ~flushing

\* a step that starts a flush by UI.syncNow: among the steps that start a
\* flush only the forced one clears _nextRetryAt (the timer callback leaves it,
\* and it is set whenever the timer is armed) without consuming an online event
ForcedStart ==
  /\ onlineEvt' = onlineEvt
  /\ nextRetryAt' = 0
  /\ retryCount' = 0

\* C9 as stated: after a flush stopped on a LogicalError the rejected head is
\* dispatched again only by a forced sync, and the rejection does not
\* increment the retry counter.
C9_NoAutomaticRetry ==
  /\ [][(Blocked /\ frames = <<>> /\ frames' # <<>>) => ForcedStart]_vars
  /\ [][FailStep("logical") => retryCount' = retryCount]_vars

FlushEnds == flushing /\ ~flushing'

\* C11 as stated: when a flush request was dropped because a flush was in
\* progress and that flush ends with items remaining, a retry timer is armed
\* as the flush ends, so that another flush attempt follows with no new
\* external trigger.
C11_DroppedRequestRearmed ==
  [][(FlushEnds /\ dropped /\ list' # <<>>) => timer' # 0]_vars

\* C12 as stated: a flush that has set the _flushing guard finishes and
\* clears it whatever its remote calls and the write of the queue to the store
\* do; so the guard is set only while an activation of flush is suspended on
\* a remote call and will run on to clear it.
C12_FlushTerminates == flushing => frames # <<>>

\* C13: in every state, also while a flush is suspended and after a restart
\* of the process at any point, every enqueued item whose remote call has not
\* returned success is in the persisted queue and in the queue in memory.
C13_Durability ==
  \A n \in 1..Len(enqueued) :
    enqueued[n].id \notin delivered =>
      /\ enqueued[n].id \in Ids(stored)
      /\ enqueued[n].id \in Ids(list)

\* the process was restarted while the second of two items was in flight:
\* the reloaded queue holds the delivered first item again and the
\* undelivered second one
C13_Witness ==
  /\ ~flushing
  /\ frames = <<>>
  /\ Len(list) = 2
  /\ stored = list
  /\ list[1].id \in delivered
  /\ list[2].id \notin delivered

\* C14 as stated: the request of every dispatched item carries the bearer
\* token that was in the JWT slot when the item was enqueued, whatever logout,
\* expiry or login happened in between.
C14_DispatchIdentity ==
  \A f \in 1..Len(frames) : frames[f].auth = owner[frames[f].item.id]

\* C15: the retry counter is always within 0..6; a step lowers it only to 0
\* and only when it is a forced flush (UI.syncNow) or the end of a flush that
\* leaves the queue empty; no other step lowers it.
C15_CounterBounds ==
  /\ [](retryCount \in 0..RetryCap)
  /\ [][retryCount' < retryCount =>
         /\ retryCount' = 0
         /\ SyncNow \/ (FlushEnds /\ list' = <<>>)]_vars

\* after two flushes that ended on a NetworkError a third ended on a
\* LogicalError and the counter kept its value
C15_Witness ==
  /\ retryCount >= 2
  /\ lastRes.cls = "logical"
  /\ ~flushing
  /\ list # <<>>

\* t is a delay computed from retry counter k: min(60000, 2000 * 2^k) plus a
\* jitter in [0, 400)
DelayFrom(t, k) ==
  LET d == IF 2000 * 2^k < 60000 THEN 2000 * 2^k ELSE 60000
  IN  d <= t /\ t < d + 400

ArmStep ==
  /\ timer' # 0
  /\ \/ timer = 0
     \/ TimerFire
     \/ SyncNow /\ ~flushing

\* C17: whenever scheduleFlush arms a timer, with the retry counter at n, n is
\* within 0..6 and the delay lies in [2000 * 2^n, 2000 * 2^n + 400) for
\* n <= 4 and in [60000, 60400) for n = 5 and n = 6; the recorded deadline is
\* that delay away.
C17_DelayRange ==
  [][ArmStep =>
       LET n == retryCount'
           t == timer'
       IN  /\ n \in 0..6
           /\ n <= 4 => (2000 * 2^n <= t /\ t < 2000 * 2^n + 400)
           /\ n >= 5 => (60000 <= t /\ t < 60400)
           /\ nextRetryAt' = t]_vars

\* a timer armed with the counter at 5, where the clamp to 60000 applies
C17_Witness ==
  /\ retryCount = 5
  /\ timer >= 60000
  /\ timer < 60400
  /\ nextRetryAt = timer

\* C18: at most one setTimeout of scheduleFlush is pending, and one is
\* pending exactly when _timer is set; while a timer is armed _nextRetryAt is
\* the instant it fires; scheduleFlush called while a timer is armed (by an
\* enqueue online or by the tail of a flush) or while the queue is empty (by
\* a flush requested offline) leaves the timer and the recorded deadline as
\* they were.
C18_SingleTimer ==
  /\ [](/\ armed <= 1
        /\ armed = (IF timer # 0 THEN 1 ELSE 0)
        /\ timer # 0 => nextRetryAt = timer
        /\ (timer # 0 \/ list = <<>>) => \A j \in Jitters : scheduleFlush(Q, j) = Q)
  /\ [][(/\ timer # 0
          /\ \/ nextId' # nextId /\ online
             \/ FailStep("net") /\ online) =>
         (timer' = timer /\ nextRetryAt' = nextRetryAt /\ armed' = armed)]_vars
  /\ [][(OnlineHandler /\ ~online /\ list = <<>>) =>
         (timer' = timer /\ nextRetryAt' = nextRetryAt /\ armed' = armed)]_vars

\* two items were enqueued online: the second enqueue called scheduleFlush
\* while the timer of the first was armed
C18_Witness ==
  /\ Len(list) = 2
  /\ ~flushing
  /\ lastRes = NoRes
  /\ delivered = {}
  /\ online
  /\ armed = 1
  /\ timer # 0
  /\ nextRetryAt = timer

\* C19 as stated: in whatever state flush(true) is called (UI.syncNow), once
\* the call has got to its connectivity check or has returned the retry
\* counter is 0 and the timer that was armed before is cancelled: no timer is
\* armed, or, offline, a new one armed from counter 0.
C19_ForceResets ==
  [][SyncNow =>
       /\ retryCount' = 0
       /\ \/ timer' = 0
          \/ ~online /\ DelayFrom(timer', 0)]_vars

\* C20: when a flush that processed the queue ends with the queue empty, then
\* in that step the retry counter is 0, no timer is armed or pending, no
\* retry deadline is recorded, the success toast has been shown exactly once
\* by that flush, and UI.route() has been called exactly when Session.data
\* holds a role.
C20_EmptyQueueCompletion ==
  [][(FlushEnds /\ list' = <<>>) =>
       /\ retryCount' = 0
       /\ timer' = 0
       /\ armed' = 0
       /\ nextRetryAt' = 0
       /\ stored' = <<>>
       /\ fx'.toasts = 1
       /\ fx'.routed <=> role # NoRole]_vars

\* the session ended while the last call of a flush was in flight; the flush
\* emptied the queue, showed its toast and did not refresh the view
C20_Witness ==
  /\ list = <<>>
  /\ ~flushing
  /\ lastRes.cls = "ok"
  /\ role = NoRole
  /\ owner # <<>>
  /\ owner[1] # jwt
  /\ fx = [toasts |-> 1, routed |-> FALSE]
  /\ retryCount = 0
  /\ timer = 0
  /\ nextRetryAt = 0

\* C21: each transition to online dispatches exactly one "online" event and
\* changes nothing else; each event is handled exactly once, by one call of
\* flush() that is not forced; a transition to offline changes navigator.onLine
\* only: the queue, the persisted queue, the retry counter, the armed timer and
\* the remote calls in flight stay as they were and none is started.
C21_EdgeTriggered ==
  /\ [][(~online /\ online') => (onlineEvt' = onlineEvt + 1 /\ Q' = Q)]_vars
  /\ [][onlineEvt' # onlineEvt =>
         \/ ~online /\ online' /\ onlineEvt' = onlineEvt + 1
         \/ /\ onlineEvt' = onlineEvt - 1
            /\ online' = online
            /\ \E j \in Jitters : Q' = flush(Q, FALSE, online, j)]_vars
  /\ [][(online /\ ~online') => (onlineEvt' = onlineEvt /\ Q' = Q)]_vars

\* with one item enqueued, a flush that failed online left the counter at 1
\* or more and a timer armed; connectivity went down and came back, the
\* "online" listener started the flush now suspended without touching the
\* counter or the timer, and connectivity went down again
C21_Witness ==
  /\ flushing
  /\ frames # <<>>
  /\ retryCount >= 1
  /\ timer # 0
  /\ nextId = 2
  /\ onlineEvt = 0
  /\ ~online

\* C22: every enqueue and every end of a flush, whatever its outcome, writes
\* the resulting queue to the store, so that whenever no flush is in progress
\* (also after a restart of the process) the persisted queue equals the queue
\* in memory.
C22_PersistedEqualsMemory ==
  /\ [](~flushing => stored = list)
  /\ [][FlushEnds => stored' = list']_vars
  /\ [][nextId' # nextId => stored' = list']_vars

\* a flush delivered the first of two items and stopped on a LogicalError at
\* the second: the store holds the second item with its annotation
C22_Witness ==
  /\ ~flushing
  /\ delivered = {1}
  /\ lastRes.cls = "logical"
  /\ Len(stored) = 1
  /\ stored[1].id = 2
  /\ stored[1].error # NoError
  /\ stored = list

\* a GET with a cacheKey for which the store holds a record
CachedGet(method, cacheKey) ==
  /\ method = "GET"
  /\ cacheKey # NoKey
  /\ cache[cacheKey] # NoRec

\* C23 as stated: a GET with a cacheKey that is made while connectivity is
\* down, or whose fetch fails at transport level, returns the stored value
\* whenever the store holds a record for the key, also when the record is
\* older than the caller's cacheMaxAgeMs.
C23_OfflineReadIgnoresTtl ==
  /\ [][\A shape \in CallShapes :
          (ApiCall(shape[1], shape[2]) /\ ~online /\ CachedGet(shape[1], shape[2]))
            => /\ calls' = calls
               /\ lastOp' = [out |-> "cache", value |-> cache[shape[2]].v]]_vars
  /\ [][Len(calls') < Len(calls) =>
         \A c \in 1..Len(calls) : \A o \in Outcomes :
           (/\ ApiSettleWith(c, o[1], o[2])
            /\ o[1].kind = "fault"
            /\ CachedGet(calls[c].method, calls[c].cacheKey))
             => lastOp' = [out |-> "cache",
                           value |-> cache[calls[c].cacheKey].v]]_vars

\* C24: the gateway writes a cache entry only when a GET with that cacheKey
\* gets a success response, and then it writes the response body stamped with
\* the current time and leaves the other entries alone; it writes the
\* last-sync timestamp only when a call gets a success response (to the
\* current time).  A call that starts, is answered from the cache, fails at
\* transport level or gets a non-success response, and a successful call
\* that is not a GET with a cacheKey, leave the cache as it was; no call that
\* fails or is answered from the cache changes the last-sync timestamp.
C24_WritesOnlyOnSuccess ==
  /\ [][cache' # cache =>
         \E c \in 1..Len(calls) : \E o \in Outcomes :
           /\ ApiSettleWith(c, o[1], o[2])
           /\ o[1].kind = "ok"
           /\ calls[c].method = "GET"
           /\ calls[c].cacheKey # NoKey
           /\ cache' = [cache EXCEPT ![calls[c].cacheKey] =
                                       [t |-> clock, v |-> o[2]]]]_vars
  /\ [][lastSyncAt' # lastSyncAt =>
         /\ lastSyncAt' = clock
         /\ \E c \in 1..Len(calls) : \E o \in Outcomes :
              ApiSettleWith(c, o[1], o[2]) /\ o[1].kind = "ok"]_vars
  /\ [][Len(calls') < Len(calls) =>
         /\ lastOp'.out \in {"data", "cache", "throw"}
         /\ lastOp'.out \in {"cache", "throw"} =>
              (cache' = cache /\ lastSyncAt' = lastSyncAt)
         /\ lastOp'.out = "data" =>
              \E c \in 1..Len(calls) :
                /\ calls' = RemoveAt(calls, c)
                /\ IF calls[c].method = "GET" /\ calls[c].cacheKey # NoKey
                     THEN cache' = [cache EXCEPT ![calls[c].cacheKey] =
                                      [t |-> clock, v |-> lastOp'.value]]
                     ELSE cache' = cache]_vars
  /\ [][Len(calls') >= Len(calls) =>
         (cache' = cache /\ lastSyncAt' = lastSyncAt)]_vars

\* a successful GET wrote the entry of "reports.me" and the last-sync time at
\* the second instant; at the third a call was answered from the cache after
\* a failed fetch and left both as they were
C24_Witness ==
  /\ clock = Instant0 + FiveMinutes + 1
  /\ cache["reports.me"] # NoRec
  /\ cache["reports.me"].t = Instant0 + FiveMinutes
  /\ lastSyncAt = Instant0 + FiveMinutes
  /\ lastFromCache
  /\ lastOp.out = "cache"
  /\ online
  /\ calls = <<>>

Keys(l) == {l[n].key : n \in 1..Len(l)}

\* a step in which rememberSession puts an entry with this key in the list
Remembered(key) == recency' # <<>> /\ recency'[1].key = key /\ accounts' # <<>>

\* C25: after any sequence of rememberSession calls the account list has at
\* most 5 entries, no two with the same (role, loginId) key, and is the list
\* of the 5 most recently remembered keys, the latest first, each with the
\* session and token of its latest call; a call for a key that is not in a
\* full list removes exactly the last entry, and a call for a key that is in
\* the list moves its entry to the front and leaves the length and the order
\* of the others as they were.
C25_AccountListBounded ==
  /\ [](/\ Len(accounts) <= 5
        /\ Cardinality(Keys(accounts)) = Len(accounts)
        /\ accounts = Take(recency, 5))
  /\ [][\A key \in Keys(recency') :
          Remembered(key) =>
            /\ accounts'[1].key = key
            /\ (key \notin Keys(accounts) /\ Len(accounts) = 5) =>
                 /\ Len(accounts') = 5
                 /\ Tail(accounts') = SubSeq(accounts, 1, 4)
            /\ key \in Keys(accounts) =>
                 /\ Len(accounts') = Len(accounts)
                 /\ Tail(accounts') = WithoutKey(accounts, key)]_vars

\* six keys were remembered and the first of them has left the list; the
\* account at the front was in the list before its latest call
C25_Witness ==
  /\ Len(recency) = 6
  /\ Len(accounts) = 5
  /\ recency[6].key \notin Keys(accounts)
  /\ accounts[1].key = "user:a@x"
  /\ accounts[2].key = "user:u1"

\* the identifiers under which the account of a session is remembered: the
\* one typed at its login and the id field of the session; an empty
\* lastLoginId stands for the id field (206)
LoginIdsOf(session) ==
  {NoId, session.id}
  \cup {person.login : person \in {q \in People : SessionOf(q) = session}}

\* C26: whenever the account list is not empty (rememberSession is the only
\* writer of the list and of the slot, apart from the clearing of both), the
\* lastSession / lastJwt / lastLoginId slot holds the session and token of
\* the entry at the front of the list and a login id of that same account,
\* whether the call had an identifier or derived the login id from the
\* session.
C26_SlotDescribesFront ==
  accounts # <<>> =>
    /\ lastSession = accounts[1].session
    /\ lastJwt = accounts[1].token
    /\ lastLoginId \in LoginIdsOf(accounts[1].session)

\* the latest rememberSession call for (r, id) stored this session and token
RememberedFor(r, id, session, token) ==
  \E n \in 1..Len(recency) :
    /\ recency[n].role = r
    /\ recency[n].loginId = id
    /\ recency[n].session = session
    /\ recency[n].token = token

\* an entry or the slot holds a token for (r, id)
StoredFor(r, id) == offlineItem(V, r, id) # [none |-> TRUE]

\* C27: in every offline login, findOfflineAccount(role, loginId) is ok only
\* with a session and token that rememberSession stored for exactly that
\* role and login id and whose token is unexpired under the 60-second skew;
\* otherwise its reason is missing for an empty login id, not_found when
\* nothing is stored for the pair and expired when the stored token is
\* expired; a stored token whose exp is ten seconds ahead gives expired; and
\* a login that is not ok establishes no session.
C27_OfflineAccountExact ==
  [][\A r \in Roles : \A typed \in TypedIds :
       (~online /\ role = NoRole /\ LoginOffline(r, typed)) =>
         LET cand == findOfflineAccount(V, r, typed, clock)
             id == Lower(typed)
         IN  /\ cand.ok =>
                  /\ RememberedFor(r, id, cand.item.session, cand.item.token)
                  /\ cand.item.token[2].val.exp - 60 > clock \div 1000
             /\ ~cand.ok =>
                  /\ cand.reason \in {"missing", "not_found", "expired"}
                  /\ cand.reason = "missing" <=> id = NoId
                  /\ cand.reason = "not_found" <=> (id # NoId /\ ~StoredFor(r, id))
                  /\ role' = NoRole
             /\ (StoredFor(r, id)
                   /\ offlineItem(V, r, id).token
                        = Jwt([hasExp |-> TRUE, exp |-> clock \div 1000 + 10,
                               role |-> r]))
                  => (~cand.ok /\ cand.reason = "expired")]_vars

\* C28: for a token with an exp claim and a skew that is not negative,
\* isJwtExpired(token, skew) is true exactly when exp - skew <= now in whole
\* seconds, now being Date.now() / 1000 rounded down: with exp = now - 1 it is
\* true for every skew, and with exp = now + skew + 1 it is false.
C28_ExpiryArithmetic ==
  (lastOp.out = "isJwtExpired" /\ HasExp(lastOp.token)) =>
    LET exp == lastOp.token[2].val.exp
        nowSec == lastOp.at \div 1000
    IN  /\ lastOp.expired <=> exp - lastOp.skew <= nowSec
        /\ exp = nowSec - 1 => lastOp.expired
        /\ exp = nowSec + lastOp.skew + 1 => ~lastOp.expired

\* a token whose exp is 61 s after an instant that is not a whole second
\* was tested with the default skew and found valid
C28_Witness ==
  /\ lastOp.out = "isJwtExpired"
  /\ lastOp.at = Instant0 + FiveMinutes + 1
  /\ lastOp.skew = 60
  /\ HasExp(lastOp.token)
  /\ lastOp.token[2].val.exp = 1361
  /\ ~lastOp.expired

\* the tokens in the account list and in the slot
StoredTokens == {accounts[n].token : n \in 1..Len(accounts)} \cup {lastJwt}

\* C29: a token with fewer than two segments, with a middle segment that is
\* not base64 or not JSON, or with a payload without exp is reported expired
\* under every skew; a session is never left active on such a token, and an
\* offline login for an account stored with such a token establishes no
\* session.
C29_FailsSafe ==
  /\ [](\A token \in StoredTokens \cup {jwt} : \A skewSeconds \in Skews :
          ~HasExp(token) => isJwtExpired(token, skewSeconds, clock))
  /\ [](role # NoRole => HasExp(jwt))
  /\ [][\A r \in Roles : \A typed \in TypedIds :
          (/\ ~online /\ role = NoRole
           /\ LoginOffline(r, typed)
           /\ StoredFor(r, Lower(typed))
           /\ ~HasExp(offlineItem(V, r, Lower(typed)).token))
            => role' = NoRole]_vars

\* the service answered a login with a token whose middle segment is not
\* base64: the account was stored with it, no session is active and the
\* device is offline
C29_Witness ==
  /\ ~online
  /\ role = NoRole
  /\ accounts # <<>>
  /\ accounts[1].key = "user:a@x"
  /\ Len(accounts[1].token) = 3
  /\ ~accounts[1].token[2].b64
  /\ lastOp = ExpiredToast

\* the sessions and tokens held by the account list and by the slot
StoredAccounts ==
  {[session |-> accounts[n].session, token |-> accounts[n].token] :
     n \in 1..Len(accounts)}
  \cup {[session |-> lastSession, token |-> lastJwt]}

\* C30 as stated: a login form submitted while navigator.onLine is false
\* starts no call of the gateway at all, leaves the account list and the
\* slot as they were, and establishes a session only from a stored account
\* whose token passes the expiry test at that moment.
C30_OfflineLoginNoCall ==
  [][\A r \in Roles : \A typed \in TypedIds :
       (~online /\ role = NoRole /\ LoginOffline(r, typed)) =>
         /\ calls' = calls
         /\ accounts' = accounts
         /\ lastSession' = lastSession
         /\ lastJwt' = lastJwt
         /\ lastLoginId' = lastLoginId
         /\ role' # NoRole =>
              /\ [session |-> [role |-> role', id |-> sessionId'],
                  token |-> jwt'] \in StoredAccounts
              /\ HasExp(jwt')
              /\ jwt'[2].val.exp - 60 > clock \div 1000]_vars

\* C30: a login form submitted while navigator.onLine is false makes no call
\* to the login endpoints, leaves the account list and the lastSession /
\* lastJwt / lastLoginId slot as they were, and, when it establishes a
\* session, takes its session and token from an entry of the list or from
\* the slot, with a token that has an exp claim more than 60 s after that
\* moment.  The only call that can start is the read of the table of the
\* role by UI.route(), after a session was established and when the cache
\* has no record of the table within its maxAge.
C30_OfflineLoginLocal ==
  [][\A r \in Roles : \A typed \in TypedIds :
       (~online /\ role = NoRole /\ LoginOffline(r, typed)) =>
         /\ \/ calls' = calls
            \/ /\ role' # NoRole
               /\ calls' = Append(calls, [method |-> "GET",
                                          cacheKey |-> TableKey(role')])
               /\ CacheGet(cache, TableKey(role'),
                           cacheMaxAgeMs(TableKey(role')), clock) = Null
         /\ cache' = cache
         /\ accounts' = accounts
         /\ lastSession' = lastSession
         /\ lastJwt' = lastJwt
         /\ lastLoginId' = lastLoginId
         /\ role' # NoRole =>
              /\ [session |-> [role |-> role', id |-> sessionId'],
                  token |-> jwt'] \in StoredAccounts
              /\ HasExp(jwt')
              /\ jwt'[2].val.exp - 60 > clock \div 1000]_vars

\* offline, the user is signed in with the stored token although the vendor
\* was the last to log in online, and the table was read from the cache
C30_Witness ==
  /\ ~online
  /\ role = "user"
  /\ sessionId = "u1"
  /\ jwt = TokenOf("user")
  /\ calls = <<>>
  /\ lastFromCache
  /\ lastOp = [out |-> "cache", value |-> "rows1"]
  /\ Len(accounts) = 2
  /\ accounts[1].key = "vendor:v1"
  /\ accounts[2].token = jwt
  /\ lastLoginId = "v1"

\* C37: in every reachable state an armed retry timer (_timer holding a
\* handle, equivalently a scheduleFlush callback pending in the platform)
\* implies a non-empty queue: scheduleFlush arms only over a non-empty list
\* and the one place that empties the list, the tail of flush, then clears
\* the schedule.
C37_TimerImpliesWork ==
  (timer # 0 \/ armed > 0) => Len(list) > 0

\* a flush has been running while an enqueue armed a timer: the state from
\* which a tail that drains the queue has to disarm it
C37_Witness ==
  /\ timer # 0
  /\ flushing
  /\ frames # <<>>
  /\ Len(list) > 0

\* C34: a call of enqueue appends exactly one new entry at the tail of the
\* list and leaves the entries already there as they were, has written the
\* list to the store when it returns, starts no flush and makes no remote
\* call, arms a retry timer when navigator.onLine is true and none is
\* armed, keeps the armed one otherwise, and arms none when navigator.onLine
\* is false.
C34_EnqueueFrame ==
  [][Len(enqueued') = Len(enqueued) + 1 =>
       /\ list' = Append(list, enqueued'[Len(enqueued')])
       /\ stored' = list'
       /\ frames' = frames
       /\ flushing' = flushing
       /\ delivered' = delivered
       /\ retryCount' = retryCount
       /\ (online /\ timer = 0) => (timer' # 0 /\ armed' = armed + 1)
       /\ (online /\ timer # 0) => (timer' = timer /\ armed' = armed)
       /\ ~online => (timer' = timer /\ armed' = armed)]_vars

\* a second entry has been appended behind one already queued, online, with
\* the timer of the first still armed
C34_Witness ==
  /\ Len(list) = 2
  /\ Len(enqueued) = 2
  /\ online
  /\ timer # 0
  /\ ~flushing

\* C38: within one process, an item whose remote call has returned success
\* is never dispatched again: no flush activation is ever suspended on a
\* call for it, and once the flush that delivered it has ended it is no
\* longer in the list that later flushes walk, also when a later item of
\* that flush failed or an item was enqueued while the flush was running.
C38_NoRedispatch ==
  /\ \A f \in 1..Len(frames) : frames[f].item.id \notin delivered
  /\ ~flushing => \A n \in 1..Len(list) : list[n].id \notin delivered

\* the first item was delivered and the second, which that flush left in
\* the queue, is being dispatched by a later flush as the head of the list
C38_Witness ==
  /\ 1 \in delivered
  /\ Len(enqueued) = 2
  /\ Len(frames) = 1
  /\ frames[1].i = 1
  /\ frames[1].item.id = 2
  /\ lastRes.cls = "none"

\* a report.create entry enqueued while offline is the whole queue, nothing
\* has failed (counter 0, no annotation), no timer is armed and no flush is
\* running; connectivity has just come back for good, its "online" event is
\* waiting and the remote accepts what it is sent
OfflineReportAtReconnect ==
  /\ calm
  /\ online
  /\ onlineEvt > 0
  /\ Len(list) = 1
  /\ list[1].type = "report.create"
  /\ list[1].error = NoError
  /\ stored = list
  /\ retryCount = 0
  /\ timer = 0
  /\ armed = 0
  /\ ~flushing
  /\ frames = <<>>
  /\ lastSyncAt = 0

\* C33: from an empty queue with no failure recorded, a report.create
\* enqueued offline followed by connectivity returning with the remote
\* accepting leads to the item delivered by the flush of the "online"
\* listener: list and store empty and the last-sync timestamp set.
C33_ReconnectDelivers ==
  OfflineReportAtReconnect
    ~> (/\ list = <<>>
        /\ stored = <<>>
        /\ delivered = Ids(enqueued)
        /\ lastSyncAt = clock)

\* the delivery has happened: the one report is delivered, both queues are
\* empty, the stamp is set and the completion toast was shown once
C33_Witness ==
  /\ calm
  /\ onlineEvt = 0
  /\ Len(enqueued) = 1
  /\ enqueued[1].type = "report.create"
  /\ delivered = {1}
  /\ list = <<>>
  /\ stored = <<>>
  /\ lastSyncAt = clock
  /\ fx.toasts = 1
  /\ netFails = 0
  /\ lastRes.cls = "ok"

\* C35: Cache.get(key, maxAge) returns the stored value when the record's
\* age, now - t, is at most maxAge (so at maxAge - 1 and at exactly maxAge),
\* and returns absent when the age exceeds maxAge (so at maxAge + 1) or when
\* there is no record; the expired and the missing case return the same
\* absent value.
C35_CacheAgeBoundary ==
  lastOp.out = "Cache.get" =>
    /\ lastOp.rec = NoRec => lastOp.value = Null
    /\ (lastOp.rec # NoRec /\ lastOp.at - lastOp.rec.t <= lastOp.maxAge)
         => lastOp.value = lastOp.rec.v
    /\ (lastOp.rec # NoRec /\ lastOp.at - lastOp.rec.t > lastOp.maxAge)
         => lastOp.value = Null

\* a record read at exactly its maximum age, and returned
C35_Witness ==
  /\ lastOp.out = "Cache.get"
  /\ lastOp.rec # NoRec
  /\ lastOp.at - lastOp.rec.t = lastOp.maxAge
  /\ lastOp.value = lastOp.rec.v
  /\ lastOp.value # Null

\* C36: every gateway call that has signalled progressStart signals
\* progressStop before it returns or throws, whether its fetch brought a
\* success response, a non-success response, or failed at transport level
\* (with or without a cached value to fall back on): the step in which a
\* suspended call ends leaves the progress bar completed.
C36_ProgressStopped ==
  [][Len(calls') < Len(calls) => progress' = "idle"]_vars

\* the token passes the test of UI.route(): it is present, decodes to a
\* payload with an exp claim, and exp - 60 lies after the current second
Usable(token) ==
  /\ token # NoToken
  /\ HasExp(token)
  /\ token[2].val.exp - 60 > clock \div 1000

\* C31: whenever UI.route() runs with a session whose token is absent or
\* expired under the 60-second skew, the session and the token are cleared
\* and the expiry message is shown, route starts no remote call, and the
\* queue, its store, the retry counter, the armed timer and a flush in
\* progress are as they were.
C31_ExpiredRouteClears ==
  [][\A c \in 1..MaxCalls : \A token \in RouteTokens :
       (/\ c \in Logins
        /\ ~Usable(token)
        /\ LoginSettle(c, Accepted, token))
         => /\ role' = NoRole
            /\ sessionId' = NoId
            /\ jwt' = NoToken
            /\ lastOp' = ExpiredToast
            /\ calls' = RemoveAt(calls, c)
            /\ UNCHANGED <<list, stored, retryCount, timer, nextRetryAt, armed,
                           frames, flushing>>]_vars

\* the expiry message is up and no session is active, while a report queued
\* in an earlier session waits with its retry timer armed and the counter
\* raised by a failed flush
C31_Witness ==
  /\ lastOp = ExpiredToast
  /\ role = NoRole
  /\ jwt = NoToken
  /\ Len(list) = 1
  /\ timer # 0
  /\ retryCount > 0
  /\ calls = <<>>

\* the stored accounts whose key is key
WithKey(key) == {n \in 1..Len(accounts) : accounts[n].key = key}

\* the session and token of the candidate the claim describes: the account
\* with the given key when there is one, otherwise the last-session slot
CandidateFor(key) ==
  IF WithKey(key) # {}
    THEN LET n == CHOOSE m \in WithKey(key) : TRUE
         IN  [none |-> FALSE, session |-> accounts[n].session,
              token |-> accounts[n].token]
  ELSE IF lastSession # NoSession /\ lastJwt # NoToken
    THEN [none |-> FALSE, session |-> lastSession, token |-> lastJwt]
  ELSE [none |-> TRUE, session |-> NoSession, token |-> NoToken]

\* C32: getOfflineCandidate(key) takes the account whose key is key when one
\* exists and otherwise the last-session slot; it answers none when there is
\* no candidate, else expired when the candidate's token is expired under
\* the 60-second skew, else mismatch when the role claim of the token
\* differs from the role of the stored session, else ok with the candidate.
C32_CandidateResolution ==
  [][(lastOp' # lastOp /\ lastOp'.out = "getOfflineCandidate") =>
       LET cand == CandidateFor(lastOp'.key)
           res == lastOp'.res
           claimed == IF cand.none THEN ""
                      ELSE cand.token[2].val.role
       IN  /\ vaultVars' = vaultVars
           /\ IF cand.none THEN ~res.ok /\ res.reason = "none"
              ELSE IF ~Usable(cand.token) THEN ~res.ok /\ res.reason = "expired"
              ELSE IF claimed # "" /\ claimed # cand.session.role
                THEN ~res.ok /\ res.reason = "mismatch"
              ELSE /\ res.ok
                   /\ res.item.session = cand.session
                   /\ res.item.token = cand.token]_vars

\* the lookup by the user's key found the account that was remembered with
\* the vendor's token and answered mismatch, although the slot holds a
\* session that would pass
C32_Witness ==
  /\ lastOp.out = "getOfflineCandidate"
  /\ lastOp.key = "user:a@x"
  /\ lastOp.res.reason = "mismatch"
  /\ lastSession.role = "vendor"
  /\ lastJwt = TokenOf("vendor")

\* C39: when a gateway call returns to its caller, api.lastFromCache, which
\* the caller reads as it resumes, tells whether the result of that call
\* came from the cache: true when the call returned without a fetch or
\* after its fetch failed, false when it returns the body of a response;
\* also while other calls are suspended at their fetch.
C39_FlagTellsOrigin ==
  [][/\ \A shape \in CallShapes :
          (ApiCall(shape[1], shape[2]) /\ calls' = calls) => lastFromCache'
     /\ \A c \in 1..MaxCalls : \A o \in Outcomes :
          (/\ c \in 1..Len(calls)
           /\ ApiSettleWith(c, o[1], o[2])
           /\ lastOp'.out # "throw")
            => (lastFromCache' <=> o[1].kind # "ok")]_vars

\* a read whose fetch failed has just been answered from the cache while
\* another call is still suspended at its fetch
C39_Witness ==
  /\ online
  /\ Len(calls) = 1
  /\ lastFromCache
  /\ lastOp.out = "cache"

\* C40: a mutating action of one of the four kinds that cannot be delivered
\* is put on the queue: issued with connectivity down, or issued online
\* and its direct api() call fails with an error that isNetworkError
\* accepts, the handler ends with an entry of its kind appended to
\* OfflineQueue.list.
C40_UndeliveredQueued ==
  [][/\ SubmitOffline => list' = Append(list, Entry(nextId, "report.create"))
     /\ Assign => list' = Append(list, Entry(nextId, "admin.assign"))
     /\ AdminUpdateStatus => list' = Append(list, Entry(nextId, "admin.status"))
     /\ VendorComplete => list' = Append(list, Entry(nextId, "vendor.complete"))
     /\ \A c \in 1..MaxCalls : \A resp \in Responses :
          (/\ c \in 1..Len(calls)
           /\ "action" \in DOMAIN calls[c]
           /\ resp.kind # "ok"
           /\ isNetworkError(ApiError(resp), online)
           /\ DirectSettle(c, resp))
            => list' = Append(list, Entry(nextId, calls[c].action))]_vars
====
